---- MODULE Spec2Model ----
(***************************************************************************)
(* A model of the allegro/mesos-executor runtime.                          *)
(*                                                                         *)
(* Several state machines are described, each with its own specification:  *)
(*   Spec      the lifecycle orchestrator (Executor.taskEventLoop), the    *)
(*             agent link (Executor.Start / eventLoop / handleMesosEvent), *)
(*             the child waiter, the certificate timer and the health      *)
(*             supervisor, with the status updates the orchestrator emits  *)
(*             kept as the log of Update calls;                            *)
(*   SpecUpd   the status reporter (bufferedUpdater): buffer, worker,      *)
(*             unacknowledged map, acknowledgements and Wait;              *)
(*   SpecStop  cancellableCommand.Stop called by concurrent callers;       *)
(*   SpecHealth  the health supervisor (handleHealthResults) with its      *)
(*             clock;                                                      *)
(*   SpecLink  the agent link with failing subscribe calls and the         *)
(*             recovery timer;                                             *)
(*   SpecBurst the events channel filled slot by slot by the agent link    *)
(*             and the health supervisor, up to its capacity;              *)
(*   SpecRelaunch  the orchestrator with an agent that repeats LAUNCH;     *)
(*   SpecKill  KillTree on the process trees of the child;                 *)
(*   SpecHook  hook.Manager.HandleEvent as a function of its hooks;        *)
(*   SpecEnv   the environment NewCommand gives to the child process;      *)
(*   SpecCert  the certificate timer armed by checkCert.                   *)
(* FairSpecUpd, FairSpecLink and FairSpecCancel add the fairness of the    *)
(* goroutine scheduler, of timers and of select.                           *)
(***************************************************************************)
EXTENDS Integers, Sequences, FiniteSets, TLC

VARIABLES
    \* ---- orchestrator (Executor) ----
    events,          \* e.events: the internal event channel (FIFO)
    loopPc,          \* taskEventLoop: "running" or "returned"
    ctxDone,         \* e.context cancelled (defer e.contextCancel())
    framework,       \* e.framework has the TASK_KILLING_STATE capability
    taskInfo,        \* taskInfo local of taskEventLoop: NoTask (nil) or a TaskID
    cmd,             \* cmd local of taskEventLoop: "nil" or "cmd"
    fireHealthyHook, \* fireHealthyHook local of taskEventLoop
    updates,         \* calls made to stateUpdater.Update/UpdateWithOptions, in order
    hookLog,         \* calls made to Hook.HandleEvent, in order
    trace,           \* what the loop goroutine did, in order: status updates,
                     \* hook calls, child start, Stop calls, timers and checks armed
    lastHandled,     \* the event the loop processed last (NoEvent: none yet)
    \* ---- child process and its waiter ----
    childState,      \* "none", "running", "exited"
    exitKind,        \* "none", "success" (exit code 0), "error"
    exitAfterStop,   \* the child exited after Stop had been invoked
    observed,        \* the Wait goroutine has turned the exit into an exit state
    killing,         \* cancellableCommand.killing
    signals,         \* signal rounds delivered to the process tree by Stop
    \* ---- certificate timer and health supervisor ----
    certArmed,       \* time.AfterFunc of checkCert is pending
    hcStarted,       \* DoHealthChecks was called
    neverPassedBefore,
    consecutiveFailures,
    checkDefinition, \* the HealthCheck: its delay and grace period, in ticks
    startTime,       \* startTime local of handleHealthResults
    now,             \* the wall clock, in ticks, where the supervisor is timed
    hcResults,       \* the results of performCheck so far, where it is timed
    \* ---- agent link (Executor.Start) ----
    linkPc,          \* "select", "connected", "sending", "aborted", "fatal", "returned"
    inputsLeft,      \* inputs of the environment still to come (model bound):
                     \* agent events, check results, timer expiry, child exit
    launchSent,      \* the agent has sent its LAUNCH
    recoveryTimer,   \* recoveryTimeout of Start: "armed" or "fired"
    subscribeFails,  \* failed subscribe calls so far (MaxSubscribeFails: that or more)
    accepted,        \* a subscribe call has succeeded
    \* ---- status reporter (bufferedUpdater) ----
    buffer,          \* u.buffer: the channel of pending statuses (UUIDs)
    unAckStatuses,   \* u.unAckStatuses: the UUIDs in the map
    workerPc,        \* the goroutine of loop(): "select", "popped", "send", "requeue", "exited"
    held,            \* the status the worker took off the buffer (0: none)
    produced,        \* number of update calls made; their UUIDs are 1..produced
    delivered,       \* UUIDs the agent has received in a successful POST
    acked,           \* UUIDs for which Acknowledge has run
    failsLeft,       \* POSTs the agent will still fail (model bound)
    updCtxDone,      \* u.ctx cancelled (defer u.ctxCancel() of Wait)
    waitPc,          \* Wait: "notcalled", "tick", "readUnack", "ok", "deadline"
    waitTicks,       \* ticks of Wait's ticker seen so far
    \* ---- concurrent callers of cancellableCommand.Stop ----
    stopPc,          \* per caller: "idle", "call", "set", "term", "grace", "kill", "done"
    graceWaits,      \* number of <-time.After(gracePeriod) waits performed
    \* ---- calls of Manager.HandleEvent, NewCommand and checkCert ----
    hookIn,          \* HandleEvent: ignoreErrors and, per hook, what it returns
    hookOut,         \* HandleEvent: the hooks called and what it returned
    envIn,           \* launchTask: os.Environ(), the task's variables, hookEnv
    cmdEnv,          \* cmd.Env of the command NewCommand built
    certIn,          \* checkCert: NotAfter, the clock and the random jitter
    certOut,         \* checkCert: what it computed and returned
    linkHolds,       \* the event eventLoop decoded last and handleMesosEvent sends
    burstSent,       \* KILL and SHUTDOWN events decoded so far, where they are counted
    killIn,          \* KillTree: the signal, the process tree and its process groups
    killOut          \* KillTree: the groups it computed and the signals it sent

orchVars == <<events, loopPc, ctxDone, framework, taskInfo, cmd, fireHealthyHook,
              updates, hookLog, trace, lastHandled, childState, exitKind, exitAfterStop,
              observed, killing, signals, certArmed, hcStarted,
              neverPassedBefore, consecutiveFailures,
              checkDefinition, startTime, now, hcResults,
              linkPc, inputsLeft, launchSent, recoveryTimer, subscribeFails, accepted>>

updVars == <<buffer, unAckStatuses, workerPc, held, produced, delivered, acked,
             failsLeft, updCtxDone, waitPc, waitTicks>>

callVars == <<stopPc, graceWaits>>

burstVars == <<linkHolds, burstSent>>

killVars == <<killIn, killOut>>

sideVars == <<burstVars, killVars>>

funVars == <<hookIn, hookOut, envIn, cmdEnv, certIn, certOut, sideVars>>

vars == <<orchVars, updVars, callVars, funVars>>

----
\* Bounds of the model.
MaxInputs == 4
NumHooks == 2

\* Program constants.
EventsCap == 128
MaxConsecutiveFailures == 2

NoTask == "nil"
EmptyID == ""
LaunchID == "T1"
KillIDs == {"T1", "T2"}
Hooks == 1..NumHooks
Terminal == {"TASK_FINISHED", "TASK_FAILED", "TASK_KILLED"}

----
\* Events of the internal channel.
Ev(type, tid, msg) == [type |-> type, tid |-> tid, msg |-> msg]

NoEvent == Ev("none", EmptyID, "")

\* e.events <- ev: a send on the buffered channel (blocks when it is full).
\* Once taskEventLoop has returned nothing receives from the channel: what is
\* sent then only occupies buffer slots, of which there are more than the
\* bounds of this model can fill, and its content is not recorded.
CanSend == Len(events) < EventsCap

Send(evs) == IF loopPc = "returned" THEN events ELSE events \o evs

\* The goroutines that only feed the channel (exit waiter, certificate timer,
\* health supervisor) are followed while the loop can still receive; their
\* later sends change nothing but their own state.
Feeds == loopPc = "running" /\ CanSend

\* bufferedUpdater.update as seen by the orchestrator: one more status.
\* msg is the optional Message: <<>> when nil, else its parts.
StatusMsg(tid, state, healthy, msg) ==
    [tid |-> tid, state |-> state, healthy |-> healthy, msg |-> msg]

\* Update(taskID, state), and UpdateWithOptions without a Message.
Status(tid, state, healthy) == StatusMsg(tid, state, healthy, <<>>)

\* One entry of the trace.
T(k, v) == [k |-> k, v |-> v]

UpdatesTrace(sts) == [i \in DOMAIN sts |-> T("update", sts[i].state)]

HooksTrace(calls) == [i \in DOMAIN calls |-> T("hook", calls[i].type)]

\* Manager.HandleEvent: the hooks called, in list order; with ignoreErrors
\* false the call stops at the first hook of `failing`.
FirstFailing(failing) == CHOOSE h \in failing : \A g \in failing : h <= g

HandleEventCalls(type, ignoreErrors, failing) ==
    LET last == IF ignoreErrors \/ failing = {} THEN NumHooks ELSE FirstFailing(failing)
    IN  [i \in 1..last |-> [hook |-> i, type |-> type]]

HandleEventErr_Never(ignoreErrors, failing) == FALSE

\* The error HandleEvent returns: that of the first failing hook, unless
\* errors are ignored.
HandleEventErr(ignoreErrors, failing) == ~ignoreErrors /\ failing # {}

----
\* Executor.shutDown(taskInfo, cmd) and cancellableCommand.Stop as effects on
\* the state; termErr/killErr: KillTree returned an error in that round.
ShutDownRuns == taskInfo # NoTask /\ cmd # "nil"

ShutDownUpdates ==
    IF ShutDownRuns /\ framework
    THEN Append(updates, Status(taskInfo, "TASK_KILLING", "none"))
    ELSE updates

ShutDownHooks(failing) ==
    IF ShutDownRuns
    THEN hookLog \o HandleEventCalls("BeforeTerminate", TRUE, failing)
    ELSE hookLog

wrapWithStopAndCont_AlwaysCont(signal) == <<"SIGSTOP", signal, "SIGCONT">>

\* wrapWithStopAndCont: the signals of one KillTree round.
wrapWithStopAndCont(signal) ==
    IF signal # "SIGKILL" THEN <<"SIGSTOP", signal, "SIGCONT">> ELSE <<"SIGSTOP", signal>>

\* KillTree(signal, pid): the signals sent to the process groups of the tree;
\* nothing is sent when getProcessGroupsInTree fails (err).
KillTree(signal, err) == IF err THEN <<>> ELSE wrapWithStopAndCont(signal)

\* cancellableCommand.Stop run by one caller from start to end.
StopSignals(termErr, killErr) ==
    IF killing THEN signals
    ELSE IF termErr THEN signals \o KillTree("SIGTERM", TRUE)
    ELSE signals \o KillTree("SIGTERM", FALSE) \o KillTree("SIGKILL", killErr)

ShutDownSignals(termErr, killErr) ==
    IF ShutDownRuns THEN StopSignals(termErr, killErr) ELSE signals

ShutDownKilling == IF ShutDownRuns THEN TRUE ELSE killing

\* The TaskID put on the terminal status of the Kill and Shutdown cases.
KillTaskID_FromTaskInfo(ev) == taskInfo

KillTaskID(ev) == ev.tid

ShutdownTaskID(ev) == ev.tid

\* The terminal state reported for a CommandExited event.
CommandExitedState(ev) == "TASK_FAILED"

----
\* NewExecutor and the locals of taskEventLoop; t, c, ch: the task, the
\* command and the child process.
OrchStateHC(t, c, ch, hc) ==
    /\ events = <<>>
    /\ loopPc = "running"
    /\ ctxDone = FALSE
    /\ framework = FALSE
    /\ taskInfo = t
    /\ cmd = c
    /\ fireHealthyHook = TRUE
    /\ updates = <<>>
    /\ hookLog = <<>>
    /\ trace = <<>>
    /\ lastHandled = NoEvent
    /\ childState = ch
    /\ exitKind = "none"
    /\ exitAfterStop = FALSE
    /\ observed = FALSE
    /\ killing = FALSE
    /\ signals = <<>>
    /\ certArmed = FALSE
    /\ hcStarted = hc
    /\ neverPassedBefore = TRUE
    /\ consecutiveFailures = 0
    /\ checkDefinition = [delay |-> 0, grace |-> 0]
    /\ startTime = 0
    /\ now = 0
    /\ hcResults = <<>>
    /\ linkPc = "select"
    /\ inputsLeft = MaxInputs
    /\ launchSent = FALSE
    /\ recoveryTimer = "armed"
    /\ subscribeFails = 0
    /\ accepted = FALSE

OrchState(t, c, ch) == OrchStateHC(t, c, ch, FALSE)

OrchInit == OrchState(NoTask, "nil", "none")

\* The executor process is gone: Start returned (nil or the fatal error) and
\* main exits.  The child, in its own process group, is not touched by that.
Exited == linkPc \in {"fatal", "returned"}

\* The loop takes the next event off the channel.
Takes(type) ==
    /\ ~Exited
    /\ loopPc = "running"
    /\ events # <<>>
    /\ Head(events).type = type
    /\ lastHandled' = Head(events)
    /\ UNCHANGED inputsLeft

childVars == <<childState, exitKind, exitAfterStop, observed>>
timeVars == <<checkDefinition, startTime, now, hcResults>>
healthVars == <<hcStarted, neverPassedBefore, consecutiveFailures, timeVars>>
linkVars == <<linkPc, launchSent, recoveryTimer, subscribeFails, accepted>>
stopVars == <<killing, signals>>

\* return from taskEventLoop: the deferred contextCancel runs.
Returns == loopPc' = "returned" /\ ctxDone' = TRUE
Continues == UNCHANGED <<loopPc, ctxDone>>

\* What shutDown adds to the trace: KILLING, the BeforeTerminate hooks, and
\* the call of cmd.Stop (a no-op when c.killing is already set).
ShutDownTrace(failing) ==
    IF ShutDownRuns
    THEN (IF framework THEN <<T("update", "TASK_KILLING")>> ELSE <<>>)
         \o HooksTrace(HandleEventCalls("BeforeTerminate", TRUE, failing))
         \o <<T("stop", IF killing THEN "noop" ELSE "run")>>
    ELSE <<>>

\* shutDown(taskInfo, cmd) followed by a terminal status and return.
ShutDownAndReport(status) ==
    \E failing \in SUBSET Hooks, termErr \in BOOLEAN, killErr \in BOOLEAN :
        /\ updates' = Append(ShutDownUpdates, status)
        /\ hookLog' = ShutDownHooks(failing)
        /\ trace' = trace \o ShutDownTrace(failing) \o UpdatesTrace(<<status>>)
        /\ signals' = ShutDownSignals(termErr, killErr)
        /\ killing' = ShutDownKilling

LoopSubscribed ==
    /\ Takes("Subscribed")
    /\ events' = Tail(events)
    /\ framework' = Head(events).msg
    /\ Continues
    /\ UNCHANGED <<taskInfo, cmd, fireHealthyHook, updates, hookLog, trace, certArmed>>
    /\ UNCHANGED <<childVars, healthVars, linkVars, stopVars>>
    /\ UNCHANGED <<updVars, callVars, funVars>>

\* The error launchTask returns when the given step fails.
LaunchError(step) ==
    IF step = "cert" THEN "problem with certificate"
    ELSE IF step = "scrape" THEN "cannot configure service log scraping"
    ELSE IF step = "hook" THEN "error running hooks before task start"
    ELSE "cannot start command"

LaunchFailedMessage_Bare(step) == <<LaunchError(step)>>

\* fmt.Sprintf("Cannot launch task: %s", err)
LaunchFailedMessage(step) == <<"Cannot launch task", LaunchError(step)>>

AfterStart_HealthFirst(hasHC) ==
    (IF hasHC THEN <<T("health", "start")>> ELSE <<>>) \o <<T("update", "TASK_RUNNING")>>

\* launchTask after cmd.Start returned nil: Update(TASK_RUNNING), then
\* DoHealthChecks when the task has a health check.
AfterStart(hasHC) ==
    <<T("update", "TASK_RUNNING")>> \o (IF hasHC THEN <<T("health", "start")>> ELSE <<>>)

\* launchTask and the failure branch of case Launch, in the order of the code.
LaunchTrace(step, validate, hasHC, failing) ==
    <<T("update", "TASK_STARTING")>>
    \o (IF validate THEN <<T("cert", IF step = "cert" THEN "error" ELSE "armed")>> ELSE <<>>)
    \o (IF step = "scrape" THEN <<T("scrape", "error")>> ELSE <<>>)
    \o (IF step \in {"cert", "scrape"} THEN <<>>
        ELSE HooksTrace(HandleEventCalls("BeforeTaskStart", FALSE, failing))
             \o (IF failing # {} THEN <<T("hookerr", "BeforeTaskStart")>> ELSE <<>>))
    \o (IF step \in {"start", "ok"}
        THEN <<T("start", IF step = "ok" THEN "ok" ELSE "error")>> ELSE <<>>)
    \o (IF step = "ok"
        THEN AfterStart(hasHC)
        ELSE <<T("update", "TASK_FAILED")>>)

\* case Launch, with launchTask.  step is the launch step that fails, if any.
LoopLaunch ==
    /\ Takes("Launch")
    /\ events' = Tail(events)
    /\ taskInfo' = Head(events).tid
    /\ \E step \in {"cert", "scrape", "hook", "start", "ok"},
          validate \in BOOLEAN, hasHC \in BOOLEAN, failing \in SUBSET Hooks :
        /\ step = "cert" => validate
        /\ (step = "hook") <=> (failing # {})
        /\ certArmed' = (validate /\ step # "cert")
        /\ hookLog' = IF step \in {"cert", "scrape"} THEN hookLog
                      ELSE hookLog \o HandleEventCalls("BeforeTaskStart", FALSE, failing)
        /\ trace' = trace \o LaunchTrace(step, validate, hasHC, failing)
        /\ IF step = "ok"
           THEN /\ cmd' = "cmd"
                /\ childState' = "running"
                /\ updates' = updates \o <<Status(Head(events).tid, "TASK_STARTING", "none"),
                                           Status(Head(events).tid, "TASK_RUNNING", "none")>>
                /\ hcStarted' = hasHC
                /\ Continues
           ELSE /\ cmd' = "nil"
                /\ childState' = childState
                /\ updates' = updates \o <<Status(Head(events).tid, "TASK_STARTING", "none"),
                                           StatusMsg(Head(events).tid, "TASK_FAILED", "none",
                                                     LaunchFailedMessage(step))>>
                /\ hcStarted' = hcStarted
                /\ Returns
    /\ UNCHANGED <<framework, fireHealthyHook, exitKind, exitAfterStop, observed>>
    /\ UNCHANGED <<neverPassedBefore, consecutiveFailures, timeVars>>
    /\ UNCHANGED <<linkVars, stopVars>>
    /\ UNCHANGED <<updVars, callVars, funVars>>

LatchAfterHealthy_Kept == fireHealthyHook

\* fireHealthyHook = false, on the first Healthy event.
LatchAfterHealthy == FALSE

AfterHealthyFailedMessage == <<"Error calling after task healthy hooks">>

\* case Healthy.  failing: the AfterTaskHealthy hooks that return an error.
LoopHealthy ==
    /\ Takes("Healthy")
    /\ events' = Tail(events)
    /\ fireHealthyHook' = (fireHealthyHook /\ LatchAfterHealthy)
    /\ \E failing \in SUBSET Hooks :
        /\ ~fireHealthyHook => failing = {}
        /\ LET calls == IF fireHealthyHook
                        THEN HandleEventCalls("AfterTaskHealthy", FALSE, failing)
                        ELSE <<>>
               afterHealthy == hookLog \o calls
               afterTrace == trace \o HooksTrace(calls)
                             \o (IF failing # {} THEN <<T("hookerr", "AfterTaskHealthy")>>
                                 ELSE <<>>)
           IN IF HandleEventErr(FALSE, failing)
              THEN \E failing2 \in SUBSET Hooks, termErr \in BOOLEAN, killErr \in BOOLEAN :
                    LET failed == StatusMsg(taskInfo, "TASK_FAILED", "none",
                                            AfterHealthyFailedMessage)
                    IN  /\ updates' = Append(ShutDownUpdates, failed)
                        /\ hookLog' = IF ShutDownRuns
                                      THEN afterHealthy
                                           \o HandleEventCalls("BeforeTerminate", TRUE, failing2)
                                      ELSE afterHealthy
                        /\ trace' = afterTrace \o ShutDownTrace(failing2)
                                    \o UpdatesTrace(<<failed>>)
                        /\ signals' = ShutDownSignals(termErr, killErr)
                        /\ killing' = ShutDownKilling
                        /\ Returns
              ELSE /\ updates' = Append(updates, Status(taskInfo, "TASK_RUNNING", "true"))
                   /\ hookLog' = afterHealthy
                   /\ trace' = Append(afterTrace, T("update", "TASK_RUNNING"))
                   /\ UNCHANGED stopVars
                   /\ Continues
    /\ UNCHANGED <<framework, taskInfo, cmd, certArmed>>
    /\ UNCHANGED <<childVars, healthVars, linkVars>>
    /\ UNCHANGED <<updVars, callVars, funVars>>

LoopUnhealthy ==
    /\ Takes("Unhealthy")
    /\ events' = Tail(events)
    /\ updates' = Append(updates, StatusMsg(taskInfo, "TASK_RUNNING", "false",
                                            <<Head(events).msg>>))
    /\ trace' = Append(trace, T("update", "TASK_RUNNING"))
    /\ Continues
    /\ UNCHANGED <<framework, taskInfo, cmd, fireHealthyHook, hookLog, certArmed>>
    /\ UNCHANGED <<childVars, healthVars, linkVars, stopVars>>
    /\ UNCHANGED <<updVars, callVars, funVars>>

\* cases FailedDueToUnhealthy and FailedDueToExpiredCertificate.
LoopFailedDueTo(type, terminal) ==
    /\ Takes(type)
    /\ events' = Tail(events)
    /\ \E failing \in SUBSET Hooks, termErr \in BOOLEAN, killErr \in BOOLEAN :
        LET info == <<Head(events).msg>>
            unhealthy == StatusMsg(taskInfo, "TASK_RUNNING", "false", info)
            running == Append(updates, unhealthy)
            killingSt == IF ShutDownRuns /\ framework
                         THEN Append(running, Status(taskInfo, "TASK_KILLING", "none"))
                         ELSE running
            last == StatusMsg(taskInfo, terminal, "false", info)
        IN  /\ updates' = Append(killingSt, last)
            /\ hookLog' = ShutDownHooks(failing)
            /\ trace' = trace \o UpdatesTrace(<<unhealthy>>) \o ShutDownTrace(failing)
                        \o UpdatesTrace(<<last>>)
            /\ signals' = ShutDownSignals(termErr, killErr)
            /\ killing' = ShutDownKilling
    /\ Returns
    /\ UNCHANGED <<framework, taskInfo, cmd, fireHealthyHook, certArmed>>
    /\ UNCHANGED <<childVars, healthVars, linkVars>>
    /\ UNCHANGED <<updVars, callVars, funVars>>

LoopFailedDueToUnhealthy_Killed == LoopFailedDueTo("FailedDueToUnhealthy", "TASK_KILLED")

LoopFailedDueToUnhealthy == LoopFailedDueTo("FailedDueToUnhealthy", "TASK_FAILED")

LoopFailedDueToExpiredCertificate ==
    LoopFailedDueTo("FailedDueToExpiredCertificate", "TASK_KILLED")

LoopCommandExited ==
    /\ Takes("CommandExited")
    /\ events' = Tail(events)
    /\ ShutDownAndReport(StatusMsg(taskInfo, CommandExitedState(Head(events)), "none",
                                   <<Head(events).msg>>))
    /\ Returns
    /\ UNCHANGED <<framework, taskInfo, cmd, fireHealthyHook, certArmed>>
    /\ UNCHANGED <<childVars, healthVars, linkVars>>
    /\ UNCHANGED <<updVars, callVars, funVars>>

KillMessage == <<"Task killed due to receiving a kill event from Mesos agent">>

ShutdownMessage == <<"Task killed due to receiving a shutdown event from Mesos agent">>

LoopKill ==
    /\ Takes("Kill")
    /\ events' = Tail(events)
    /\ ShutDownAndReport(StatusMsg(KillTaskID(Head(events)), "TASK_KILLED", "none",
                                   KillMessage))
    /\ Returns
    /\ UNCHANGED <<framework, taskInfo, cmd, fireHealthyHook, certArmed>>
    /\ UNCHANGED <<childVars, healthVars, linkVars>>
    /\ UNCHANGED <<updVars, callVars, funVars>>

\* case Shutdown: no return statement, the loop goes on to the next event.
LoopShutdown ==
    /\ Takes("Shutdown")
    /\ events' = Tail(events)
    /\ \E failing \in SUBSET Hooks, termErr \in BOOLEAN, killErr \in BOOLEAN :
        LET killed == StatusMsg(ShutdownTaskID(Head(events)), "TASK_KILLED", "none",
                                ShutdownMessage)
        IN  /\ updates' = IF taskInfo # NoTask
                          THEN Append(ShutDownUpdates, killed)
                          ELSE ShutDownUpdates
            /\ hookLog' = ShutDownHooks(failing)
            /\ trace' = trace \o ShutDownTrace(failing)
                        \o (IF taskInfo # NoTask THEN UpdatesTrace(<<killed>>) ELSE <<>>)
            /\ signals' = ShutDownSignals(termErr, killErr)
            /\ killing' = ShutDownKilling
    /\ Continues
    /\ UNCHANGED <<framework, taskInfo, cmd, fireHealthyHook, certArmed>>
    /\ UNCHANGED <<childVars, healthVars, linkVars>>
    /\ UNCHANGED <<updVars, callVars, funVars>>

----
\* The child exits: by itself, or as its reaction to the signals of Stop.
ChildExits ==
    /\ childState = "running"
    /\ inputsLeft > 0
    /\ inputsLeft' = inputsLeft - 1
    /\ \E kind \in {"success", "error"} : exitKind' = kind
    /\ childState' = "exited"
    /\ exitAfterStop' = killing
    /\ UNCHANGED <<events, loopPc, ctxDone, framework, taskInfo, cmd, fireHealthyHook,
                   updates, hookLog, trace, lastHandled, observed, certArmed>>
    /\ UNCHANGED <<healthVars, linkVars, stopVars>>
    /\ UNCHANGED <<updVars, callVars, funVars>>

WaitCode_KilledOnError == IF exitKind = "success" THEN "SuccessCode" ELSE "KilledCode"

\* cancellableCommand.Wait: the exit state computed from the exit and from
\* c.killing as read at that moment.
WaitCode == IF exitKind = "success" THEN "SuccessCode"
            ELSE IF killing THEN "KilledCode"
            ELSE "FailedCode"

\* taskExitToEvent: the event posted for an exit state, if any.
taskExitToEvent(code) ==
    IF code = "FailedCode" THEN <<Ev("CommandExited", EmptyID, "error")>>
    ELSE IF code = "SuccessCode" THEN <<Ev("CommandExited", EmptyID, "success")>>
    ELSE <<>>

\* The goroutines of Wait and taskExitToEvent observe the exit.
WaitObserve ==
    /\ ~Exited
    /\ childState = "exited"
    /\ ~observed
    /\ Feeds
    /\ observed' = TRUE
    /\ UNCHANGED inputsLeft
    /\ events' = Send(taskExitToEvent(WaitCode))
    /\ UNCHANGED <<loopPc, ctxDone, framework, taskInfo, cmd, fireHealthyHook,
                   updates, hookLog, trace, lastHandled, childState, exitKind, exitAfterStop,
                   certArmed>>
    /\ UNCHANGED <<healthVars, linkVars, stopVars>>
    /\ UNCHANGED <<updVars, callVars, funVars>>

\* The timer armed by checkCert fires.
CertExpires ==
    /\ ~Exited
    /\ certArmed
    /\ Feeds
    /\ inputsLeft > 0
    /\ inputsLeft' = inputsLeft - 1
    /\ certArmed' = FALSE
    /\ events' = Send(<<Ev("FailedDueToExpiredCertificate", EmptyID, "Certificate expired")>>)
    /\ UNCHANGED <<loopPc, ctxDone, framework, taskInfo, cmd, fireHealthyHook,
                   updates, hookLog, trace, lastHandled>>
    /\ UNCHANGED <<childVars, healthVars, linkVars, stopVars>>
    /\ UNCHANGED <<updVars, callVars, funVars>>

\* handleHealthResults: the event sent for one result of performCheck.
\* inGrace: time.Since(startTime).Seconds() < GetGracePeriodSeconds().
HealthEvents_OffByOne(failed, inGrace) ==
    IF failed
    THEN IF neverPassedBefore /\ inGrace THEN <<>>
         ELSE IF consecutiveFailures + 1 > MaxConsecutiveFailures
              THEN <<Ev("FailedDueToUnhealthy", EmptyID, "check failed")>>
              ELSE <<Ev("Unhealthy", EmptyID, "check failed")>>
    ELSE IF neverPassedBefore \/ consecutiveFailures > 0
         THEN <<Ev("Healthy", EmptyID, "")>>
         ELSE <<>>

HealthEvents_NoGrace(failed, inGrace) ==
    IF failed
    THEN IF consecutiveFailures + 1 >= MaxConsecutiveFailures
         THEN <<Ev("FailedDueToUnhealthy", EmptyID, "check failed")>>
         ELSE <<Ev("Unhealthy", EmptyID, "check failed")>>
    ELSE IF neverPassedBefore \/ consecutiveFailures > 0
         THEN <<Ev("Healthy", EmptyID, "")>>
         ELSE <<>>

HealthEvents_EveryPass(failed, inGrace) ==
    IF failed
    THEN IF neverPassedBefore /\ inGrace THEN <<>>
         ELSE IF consecutiveFailures + 1 >= MaxConsecutiveFailures
              THEN <<Ev("FailedDueToUnhealthy", EmptyID, "check failed")>>
              ELSE <<Ev("Unhealthy", EmptyID, "check failed")>>
    ELSE <<Ev("Healthy", EmptyID, "")>>

HealthEvents_FailOnce(failed, inGrace) ==
    IF failed
    THEN IF neverPassedBefore /\ inGrace THEN <<>>
         ELSE IF consecutiveFailures + 1 = MaxConsecutiveFailures
              THEN <<Ev("FailedDueToUnhealthy", EmptyID, "check failed")>>
              ELSE <<Ev("Unhealthy", EmptyID, "check failed")>>
    ELSE IF neverPassedBefore \/ consecutiveFailures > 0
         THEN <<Ev("Healthy", EmptyID, "")>>
         ELSE <<>>

HealthEvents(failed, inGrace) ==
    IF failed
    THEN IF neverPassedBefore /\ inGrace THEN <<>>
         ELSE IF consecutiveFailures + 1 >= MaxConsecutiveFailures
              THEN <<Ev("FailedDueToUnhealthy", EmptyID, "check failed")>>
              ELSE <<Ev("Unhealthy", EmptyID, "check failed")>>
    ELSE IF neverPassedBefore \/ consecutiveFailures > 0
         THEN <<Ev("Healthy", EmptyID, "")>>
         ELSE <<>>

\* handleHealthResults: the body of the loop over healthResults.
handleHealthResults(failed, inGrace) ==
    /\ events' = Send(HealthEvents(failed, inGrace))
    /\ consecutiveFailures' =
          IF failed
          THEN IF neverPassedBefore /\ inGrace THEN consecutiveFailures
               ELSE consecutiveFailures + 1
          ELSE 0
    /\ neverPassedBefore' = (neverPassedBefore /\ failed)

\* One result of performCheck, next to the orchestrator: the clock is not
\* followed there.  Time only grows, so a check is not in the grace window
\* once a failure of a never-passed task was counted.
HealthResult ==
    /\ ~Exited
    /\ hcStarted
    /\ Feeds
    /\ inputsLeft > 0
    /\ inputsLeft' = inputsLeft - 1
    /\ \E failed \in BOOLEAN, inGrace \in BOOLEAN :
        /\ inGrace => (neverPassedBefore /\ consecutiveFailures = 0)
        /\ handleHealthResults(failed, inGrace)
    /\ UNCHANGED <<loopPc, ctxDone, framework, taskInfo, cmd, fireHealthyHook,
                   updates, hookLog, trace, lastHandled, certArmed, hcStarted>>
    /\ UNCHANGED <<childVars, timeVars, linkVars, stopVars>>
    /\ UNCHANGED <<updVars, callVars, funVars>>

----
\* The health supervisor followed with its clock.
MaxChecks == 4
MaxStart == 2
MaxDelay == 2
MaxGrace == 3
MaxGap == 2

\* time.Time.Truncate(d): t rounded down to a multiple of d; t itself when
\* d <= 0.
Truncate(t, d) == IF d <= 0 THEN t ELSE t - (t % d)

\* time.Since(startTime) at time t.
Since(t) == t - startTime

HealthUnchanged ==
    /\ UNCHANGED <<loopPc, ctxDone, framework, taskInfo, cmd, fireHealthyHook,
                   updates, hookLog, trace, lastHandled, certArmed, inputsLeft>>
    /\ UNCHANGED <<childVars, linkVars, stopVars>>
    /\ UNCHANGED <<updVars, callVars, funVars>>

\* DoHealthChecks(check, healthStates): handleHealthResults starts and takes
\* startTime := time.Now().Truncate(delay).
DoHealthChecks ==
    /\ ~hcStarted
    /\ hcStarted' = TRUE
    /\ \E d \in 0..MaxDelay, g \in 0..MaxGrace, t0 \in 0..MaxStart :
        /\ checkDefinition' = [delay |-> d, grace |-> g]
        /\ now' = t0
        /\ startTime' = Truncate(t0, d)
    /\ UNCHANGED <<events, neverPassedBefore, consecutiveFailures, hcResults>>
    /\ HealthUnchanged

\* A result of performCheck reaches handleHealthResults: the first one not
\* before the delay has passed, the next ones as the ticker and the checks
\* take time.
HealthTimedResult ==
    /\ hcStarted
    /\ Feeds
    /\ Len(hcResults) < MaxChecks
    /\ \E gap \in 0..MaxGap, failed \in BOOLEAN :
        LET t == now + gap + (IF hcResults = <<>> THEN checkDefinition.delay ELSE 0)
        IN  /\ now' = t
            /\ hcResults' = Append(hcResults, [failed |-> failed, since |-> Since(t)])
            /\ handleHealthResults(failed, Since(t) < checkDefinition.grace)
    /\ UNCHANGED <<hcStarted, checkDefinition, startTime>>
    /\ HealthUnchanged

HealthNext ==
    \/ DoHealthChecks
    \/ HealthTimedResult

----
\* Executor.Start: the SUBSCRIBE_LOOP.
LinkUnchanged == UNCHANGED <<loopPc, ctxDone, framework, taskInfo, cmd, fireHealthyHook,
                             updates, hookLog, trace, lastHandled, certArmed>>
                 /\ UNCHANGED <<childVars, healthVars, stopVars>>
                 /\ UNCHANGED <<updVars, callVars, funVars>>

\* case <-shouldConnect, and the subscribe call succeeds: eventLoop starts
\* and blocks in decoder.Invoke, the recovery timer still running.  With the
\* context cancelled eventLoop returns nil at its first select instead, and
\* the recovery timer is stopped, drained and reset.
LinkSubscribe ==
    /\ linkPc = "select"
    /\ linkPc' = IF ctxDone THEN "select" ELSE "connected"
    /\ recoveryTimer' = IF ctxDone THEN "armed" ELSE recoveryTimer
    /\ accepted' = TRUE
    /\ UNCHANGED <<events, inputsLeft, launchSent, subscribeFails>>
    /\ LinkUnchanged

MaxSubscribeFails == 2

TimerAfterFailedSubscribe_Reset == "armed"

\* The recovery timer after the else branch (subscribe failed): untouched.
TimerAfterFailedSubscribe == recoveryTimer

\* case <-shouldConnect, and httpClient.Do returns an error: handleConnError
\* and the next iteration of SUBSCRIBE_LOOP.
LinkSubscribeFail ==
    /\ linkPc = "select"
    /\ subscribeFails' = IF subscribeFails < MaxSubscribeFails
                         THEN subscribeFails + 1 ELSE subscribeFails
    /\ recoveryTimer' = TimerAfterFailedSubscribe
    /\ UNCHANGED <<events, inputsLeft, launchSent, linkPc, accepted>>
    /\ LinkUnchanged

\* The recovery time has passed since the timer was created or last reset.
RecoveryTimerFires ==
    /\ ~Exited
    /\ recoveryTimer = "armed"
    /\ recoveryTimer' = "fired"
    /\ UNCHANGED <<events, inputsLeft, launchSent, linkPc, subscribeFails, accepted>>
    /\ LinkUnchanged

handleMesosEvent_ErrorShutsDown(kind, tid, cap) ==
    IF kind = "SUBSCRIBED" THEN <<Ev("Subscribed", EmptyID, cap)>>
    ELSE IF kind = "LAUNCH" THEN <<Ev("Launch", tid, "")>>
    ELSE IF kind = "KILL" THEN <<Ev("Kill", tid, "")>>
    ELSE <<Ev("Shutdown", EmptyID, "")>>

\* handleMesosEvent: the internal event an agent event is translated to;
\* none for ERROR, ACKNOWLEDGED and unknown types.
handleMesosEvent(kind, tid, cap) ==
    IF kind = "SUBSCRIBED" THEN <<Ev("Subscribed", EmptyID, cap)>>
    ELSE IF kind = "LAUNCH" THEN <<Ev("Launch", tid, "")>>
    ELSE IF kind = "KILL" THEN <<Ev("Kill", tid, "")>>
    ELSE IF kind = "SHUTDOWN" THEN <<Ev("Shutdown", EmptyID, "")>>
    ELSE <<>>

\* handleMesosEvent returns errMustAbort.
MustAbort(kind) == kind = "ERROR"

\* eventLoop: one decoded agent event is handled; a cancelled context ends
\* the loop at the next iteration, and the recovery timer is then stopped,
\* drained and reset.
LinkEvent ==
    /\ linkPc = "connected"
    /\ inputsLeft > 0
    /\ CanSend
    /\ inputsLeft' = inputsLeft - 1
    /\ \E kind \in {"SUBSCRIBED", "LAUNCH", "KILL", "SHUTDOWN"},
          tid \in KillIDs, cap \in BOOLEAN :
        /\ kind = "LAUNCH" => (~launchSent /\ tid = LaunchID)
        /\ kind # "KILL" => tid = LaunchID
        /\ kind # "SUBSCRIBED" => cap = FALSE
        /\ launchSent' = (launchSent \/ kind = "LAUNCH")
        /\ events' = Send(handleMesosEvent(kind, tid, cap))
        /\ linkPc' = IF ctxDone THEN "select" ELSE "connected"
        /\ recoveryTimer' = IF ctxDone THEN "armed" ELSE recoveryTimer
    /\ UNCHANGED <<subscribeFails, accepted>>
    /\ LinkUnchanged

\* decoder.Invoke returns an error (EOF or a transport error), or the agent
\* sends an ERROR event (errMustAbort): eventLoop returns, the recovery timer
\* is stopped, drained and reset.
LinkDisconnect ==
    /\ linkPc = "connected"
    /\ linkPc' = "select"
    /\ recoveryTimer' = "armed"
    /\ UNCHANGED <<events, inputsLeft, launchSent, subscribeFails, accepted>>
    /\ LinkUnchanged

\* eventLoop decodes an ERROR event: handleMesosEvent returns errMustAbort and
\* eventLoop returns it to Start.
LinkError ==
    /\ linkPc = "connected"
    /\ inputsLeft > 0
    /\ inputsLeft' = inputsLeft - 1
    /\ events' = Send(handleMesosEvent("ERROR", EmptyID, FALSE))
    /\ linkPc' = IF MustAbort("ERROR") THEN "aborted"
                 ELSE IF ctxDone THEN "select" ELSE "connected"
    /\ UNCHANGED <<launchSent, recoveryTimer, subscribeFails, accepted>>
    /\ LinkUnchanged

\* Start after eventLoop returned errMustAbort: handleConnError logs it, the
\* recovery timer is stopped, drained and reset, the response is closed and
\* SUBSCRIBE_LOOP goes to its next iteration.
LinkAfterAbort ==
    /\ linkPc = "aborted"
    /\ linkPc' = "select"
    /\ recoveryTimer' = "armed"
    /\ UNCHANGED <<events, inputsLeft, launchSent, subscribeFails, accepted>>
    /\ LinkUnchanged

\* case <-recoveryTimeout.C: Start returns the fatal error.
LinkRecoveryTimeout ==
    /\ linkPc = "select"
    /\ recoveryTimer = "fired"
    /\ linkPc' = "fatal"
    /\ UNCHANGED <<events, inputsLeft, launchSent, recoveryTimer, subscribeFails, accepted>>
    /\ LinkUnchanged

\* case <-e.context.Done(): break SUBSCRIBE_LOOP, stateUpdater.Wait, return nil.
LinkContextDone ==
    /\ linkPc = "select"
    /\ ctxDone
    /\ linkPc' = "returned"
    /\ UNCHANGED <<events, inputsLeft, launchSent, recoveryTimer, subscribeFails, accepted>>
    /\ LinkUnchanged

----
\* The agent repeats a KILL or SHUTDOWN event; here the events channel is
\* followed slot by slot, also after taskEventLoop has returned.
BurstUnchanged ==
    /\ UNCHANGED <<loopPc, ctxDone, framework, taskInfo, cmd, fireHealthyHook,
                   updates, hookLog, trace, lastHandled, certArmed>>
    /\ UNCHANGED <<childVars, timeVars, stopVars, hcStarted, neverPassedBefore>>
    /\ UNCHANGED <<launchSent, subscribeFails, accepted>>
    /\ UNCHANGED <<updVars, callVars, hookIn, hookOut, envIn, cmdEnv, certIn, certOut, killVars>>

\* eventLoop: decoder.Invoke returns the next event of the agent, a KILL or a
\* SHUTDOWN and after the first one a duplicate of it; handleMesosEvent
\* translates it and is about to send it on e.events.
LinkDecode ==
    /\ linkPc = "connected"
    /\ burstSent < EventsCap
    /\ burstSent' = burstSent + 1
    /\ \E kind \in {"KILL", "SHUTDOWN"} :
        /\ linkHolds # NoEvent => handleMesosEvent(kind, LaunchID, FALSE)[1] = linkHolds
        /\ linkHolds' = handleMesosEvent(kind, LaunchID, FALSE)[1]
    /\ linkPc' = "sending"
    /\ UNCHANGED <<events, inputsLeft, recoveryTimer, consecutiveFailures>>
    /\ BurstUnchanged

\* handleMesosEvent: `e.events <- Event{...}` goes through once the channel
\* has a free slot, whoever receives from it; eventLoop then looks at the
\* context.
LinkDeliver ==
    /\ linkPc = "sending"
    /\ CanSend
    /\ events' = Append(events, linkHolds)
    /\ linkPc' = IF ctxDone THEN "select" ELSE "connected"
    /\ recoveryTimer' = IF ctxDone THEN "armed" ELSE recoveryTimer
    /\ UNCHANGED <<inputsLeft, consecutiveFailures, burstVars>>
    /\ BurstUnchanged

\* handleHealthResults after taskEventLoop has returned: the supervisor's
\* goroutine is still there, the check of the killed task fails outside the
\* grace window, and the event is sent on e.events.
HealthResultAfterReturn ==
    /\ ~Exited
    /\ hcStarted
    /\ loopPc = "returned"
    /\ CanSend
    /\ inputsLeft > 0
    /\ inputsLeft' = inputsLeft - 1
    /\ events' = events \o HealthEvents(TRUE, FALSE)
    /\ consecutiveFailures' = consecutiveFailures + 1
    /\ UNCHANGED <<linkPc, recoveryTimer, burstVars>>
    /\ BurstUnchanged

BurstNext ==
    \/ LinkSubscribe
    \/ LinkDecode
    \/ LinkDeliver
    \/ LinkContextDone
    \/ LoopKill
    \/ LoopShutdown
    \/ HealthResultAfterReturn

----
OrchNext ==
    \/ LoopSubscribed
    \/ LoopLaunch
    \/ LoopHealthy
    \/ LoopUnhealthy
    \/ LoopFailedDueToUnhealthy
    \/ LoopFailedDueToExpiredCertificate
    \/ LoopCommandExited
    \/ LoopKill
    \/ LoopShutdown
    \/ ChildExits
    \/ WaitObserve
    \/ CertExpires
    \/ HealthResult
    \/ LinkSubscribe
    \/ LinkEvent
    \/ LinkDisconnect
    \/ RecoveryTimerFires
    \/ LinkRecoveryTimeout
    \/ LinkContextDone

\* The agent link with subscribe calls that may fail, next to the event loop
\* of a task that gives no sign of life.
LinkNext ==
    \/ LinkSubscribe
    \/ LinkSubscribeFail
    \/ LinkEvent
    \/ LinkDisconnect
    \/ RecoveryTimerFires
    \/ LinkRecoveryTimeout
    \/ LinkContextDone
    \/ LinkError
    \/ LinkAfterAbort
    \/ LoopSubscribed
    \/ LoopLaunch
    \/ LoopKill
    \/ LoopShutdown

\* eventLoop: the agent sends a LAUNCH event to an executor that was sent
\* one before; handleMesosEvent forwards it like the first.
LinkLaunchAgain ==
    /\ linkPc = "connected"
    /\ launchSent
    /\ inputsLeft > 0
    /\ CanSend
    /\ inputsLeft' = inputsLeft - 1
    /\ events' = Send(handleMesosEvent("LAUNCH", LaunchID, FALSE))
    /\ linkPc' = IF ctxDone THEN "select" ELSE "connected"
    /\ recoveryTimer' = IF ctxDone THEN "armed" ELSE recoveryTimer
    /\ UNCHANGED <<launchSent, subscribeFails, accepted>>
    /\ LinkUnchanged

\* The orchestrator and the child of an executor whose agent repeats LAUNCH.
RelaunchNext ==
    \/ LinkSubscribe
    \/ LinkEvent
    \/ LinkLaunchAgain
    \/ LinkContextDone
    \/ LoopSubscribed
    \/ LoopLaunch
    \/ LoopCommandExited
    \/ LoopKill
    \/ LoopShutdown
    \/ ChildExits
    \/ WaitObserve

----
\* The status reporter: bufferedUpdater.
BufferSize == 2
MaxUpdates == BufferSize + 1
MaxFails == 1
WaitTimeoutTicks == 2

UUIDs == 1..MaxUpdates

UpdUnchanged == UNCHANGED <<orchVars, callVars, funVars>>

\* update(): a status with a fresh UUID is sent on u.buffer; the call blocks
\* while the buffer is full.  The orchestrator makes its last update before
\* it cancels the context that lets Start call Wait.
Update ==
    /\ waitPc = "notcalled"
    /\ produced < MaxUpdates
    /\ Len(buffer) < BufferSize
    /\ produced' = produced + 1
    /\ buffer' = Append(buffer, produced + 1)
    /\ UNCHANGED <<unAckStatuses, workerPc, held, delivered, acked, failsLeft,
                   updCtxDone, waitPc, waitTicks>>
    /\ UpdUnchanged

\* loop(), case status := <-u.buffer.
WorkerReceive ==
    /\ workerPc = "select"
    /\ buffer # <<>>
    /\ held' = Head(buffer)
    /\ buffer' = Tail(buffer)
    /\ workerPc' = "popped"
    /\ UNCHANGED <<unAckStatuses, produced, delivered, acked, failsLeft,
                   updCtxDone, waitPc, waitTicks>>
    /\ UpdUnchanged

\* loop(), u.unAckStatuses[stringUUID] = status under the mutex.
WorkerRecord ==
    /\ workerPc = "popped"
    /\ unAckStatuses' = unAckStatuses \cup {held}
    /\ workerPc' = "send"
    /\ UNCHANGED <<buffer, held, produced, delivered, acked, failsLeft,
                   updCtxDone, waitPc, waitTicks>>
    /\ UpdUnchanged

\* loop(), u.send(status) returns nil: the agent has the update.
WorkerSendOk ==
    /\ workerPc = "send"
    /\ delivered' = delivered \cup {held}
    /\ held' = 0
    /\ workerPc' = "select"
    /\ UNCHANGED <<buffer, unAckStatuses, produced, acked, failsLeft,
                   updCtxDone, waitPc, waitTicks>>
    /\ UpdUnchanged

\* send(status) when it returns an error: httpClient.Do failed and the agent
\* has nothing, or the agent answered and response.Close() failed, the agent
\* having the update then (received).
SendError(received) == IF received THEN delivered \cup {held} ELSE delivered

\* loop(), u.send(status) returns an error.
WorkerSendFail ==
    /\ workerPc = "send"
    /\ failsLeft > 0
    /\ failsLeft' = failsLeft - 1
    /\ workerPc' = "requeue"
    /\ \E received \in BOOLEAN : delivered' = SendError(received)
    /\ UNCHANGED <<buffer, unAckStatuses, held, produced, acked,
                   updCtxDone, waitPc, waitTicks>>
    /\ UpdUnchanged

\* loop(), u.buffer <- status after a failed send: blocks while the buffer
\* is full.
WorkerRequeue ==
    /\ workerPc = "requeue"
    /\ Len(buffer) < BufferSize
    /\ buffer' = Append(buffer, held)
    /\ held' = 0
    /\ workerPc' = "select"
    /\ UNCHANGED <<unAckStatuses, produced, delivered, acked, failsLeft,
                   updCtxDone, waitPc, waitTicks>>
    /\ UpdUnchanged

\* loop(), case <-u.ctx.Done().
WorkerDone ==
    /\ workerPc = "select"
    /\ updCtxDone
    /\ workerPc' = "exited"
    /\ UNCHANGED <<buffer, unAckStatuses, held, produced, delivered, acked,
                   failsLeft, updCtxDone, waitPc, waitTicks>>
    /\ UpdUnchanged

\* Acknowledge(uuid), called by handleMesosEvent for an ACKNOWLEDGED event;
\* the agent acknowledges what it has received.
AckDelete_Keep(id) == unAckStatuses

\* delete(u.unAckStatuses, uuid)
AckDelete(id) == unAckStatuses \ {id}

Acknowledge ==
    /\ \E id \in delivered \ acked :
        /\ unAckStatuses' = AckDelete(id)
        /\ acked' = acked \cup {id}
    /\ UNCHANGED <<buffer, workerPc, held, produced, delivered, failsLeft,
                   updCtxDone, waitPc, waitTicks>>
    /\ UpdUnchanged

\* Wait(timeout) is called by Start.
WaitCall ==
    /\ waitPc = "notcalled"
    /\ waitPc' = "tick"
    /\ UNCHANGED <<buffer, unAckStatuses, workerPc, held, produced, delivered,
                   acked, failsLeft, updCtxDone, waitTicks>>
    /\ UpdUnchanged

\* The else-if of Wait's loop body: time.Since(start) >= timeout.
WaitElse(ticks) == IF ticks >= WaitTimeoutTicks THEN "deadline" ELSE "tick"

\* Wait, a tick of the ticker: len(u.buffer) == 0 is evaluated.
WaitTick ==
    /\ waitPc = "tick"
    /\ waitTicks' = waitTicks + 1
    /\ waitPc' = IF Len(buffer) = 0 THEN "readUnack" ELSE WaitElse(waitTicks + 1)
    /\ updCtxDone' = (waitPc' = "deadline")
    /\ UNCHANGED <<buffer, unAckStatuses, workerPc, held, produced, delivered,
                   acked, failsLeft>>
    /\ UpdUnchanged

\* Wait, len(u.GetUnacknowledged()) == 0 is evaluated; return nil if so.  The
\* deferred u.ctxCancel() runs on either return.
WaitReadUnack ==
    /\ waitPc = "readUnack"
    /\ waitPc' = IF unAckStatuses = {} THEN "ok" ELSE WaitElse(waitTicks)
    /\ updCtxDone' = (waitPc' \in {"ok", "deadline"})
    /\ UNCHANGED <<buffer, unAckStatuses, workerPc, held, produced, delivered,
                   acked, failsLeft, waitTicks>>
    /\ UpdUnchanged

StartAfterWait_Error(err) == IF err = "deadline" THEN "fatal" ELSE "returned"

\* Start after stateUpdater.Wait returned err: the error is logged and Start
\* returns nil.
StartAfterWait(err) == "returned"

\* Start: `return nil` after the call of Wait.
StartReturns ==
    /\ waitPc \in {"ok", "deadline"}
    /\ linkPc = "select"
    /\ linkPc' = StartAfterWait(waitPc)
    /\ UNCHANGED <<events, loopPc, ctxDone, framework, taskInfo, cmd, fireHealthyHook,
                   updates, hookLog, trace, lastHandled, certArmed, inputsLeft>>
    /\ UNCHANGED <<childVars, healthVars, stopVars>>
    /\ UNCHANGED <<launchSent, recoveryTimer, subscribeFails, accepted>>
    /\ UNCHANGED <<updVars, callVars, funVars>>

\* The status built by update(): every update of this specification is
\* update(T, TASK_RUNNING), told apart by its UUID.
StatusOf(id) == [uuid |-> id, state |-> "TASK_RUNNING"]

\* GetUnacknowledged(): a snapshot of the values of u.unAckStatuses.
GetUnacknowledged == {StatusOf(id) : id \in unAckStatuses}

UpdInit ==
    /\ buffer = <<>>
    /\ unAckStatuses = {}
    /\ workerPc = "select"
    /\ held = 0
    /\ produced = 0
    /\ delivered = {}
    /\ acked = {}
    /\ failsLeft = MaxFails
    /\ updCtxDone = FALSE
    /\ waitPc = "notcalled"
    /\ waitTicks = 0

UpdNext ==
    \/ Update
    \/ WorkerReceive
    \/ WorkerRecord
    \/ WorkerSendOk
    \/ WorkerSendFail
    \/ WorkerRequeue
    \/ WorkerDone
    \/ Acknowledge
    \/ WaitCall
    \/ WaitTick
    \/ WaitReadUnack
    \/ StartReturns

----
\* cancellableCommand.Stop, statement by statement, for concurrent callers.
NumCallers == 2
Callers == 1..NumCallers

StopUnchanged ==
    /\ UNCHANGED <<events, loopPc, ctxDone, framework, taskInfo, cmd, fireHealthyHook,
                   updates, hookLog, trace, lastHandled, certArmed, inputsLeft>>
    /\ UNCHANGED <<childVars, healthVars, linkVars, updVars, funVars>>

StopEntry_Always(k) == "set"

\* if c.killing { return }: where a call goes on from that test.
StopEntry(k) == IF k THEN "noop" ELSE "set"

StopCall(c) ==
    /\ stopPc[c] = "idle"
    /\ stopPc' = [stopPc EXCEPT ![c] = StopEntry(killing)]
    /\ UNCHANGED <<killing, signals, graceWaits>>
    /\ StopUnchanged

\* c.killing = true
StopSet(c) ==
    /\ stopPc[c] = "set"
    /\ killing' = TRUE
    /\ stopPc' = [stopPc EXCEPT ![c] = "term"]
    /\ UNCHANGED <<signals, graceWaits>>
    /\ StopUnchanged

\* err := osutil.KillTree(syscall.SIGTERM, pid); return on error
StopTerm(c) ==
    /\ stopPc[c] = "term"
    /\ \E err \in BOOLEAN :
        /\ signals' = signals \o KillTree("SIGTERM", err)
        /\ stopPc' = [stopPc EXCEPT ![c] = IF err THEN "done" ELSE "grace"]
    /\ UNCHANGED <<killing, graceWaits>>
    /\ StopUnchanged

\* <-time.After(gracePeriod)
StopGrace(c) ==
    /\ stopPc[c] = "grace"
    /\ graceWaits' = graceWaits + 1
    /\ stopPc' = [stopPc EXCEPT ![c] = "kill"]
    /\ UNCHANGED <<killing, signals>>
    /\ StopUnchanged

\* osutil.KillTree(syscall.SIGKILL, pid)
StopKill(c) ==
    /\ stopPc[c] = "kill"
    /\ \E err \in BOOLEAN :
        signals' = signals \o KillTree("SIGKILL", err)
    /\ stopPc' = [stopPc EXCEPT ![c] = "done"]
    /\ UNCHANGED <<killing, graceWaits>>
    /\ StopUnchanged

StopInit ==
    /\ OrchState(LaunchID, "cmd", "running")
    /\ stopPc = [c \in Callers |-> "idle"]
    /\ graceWaits = 0

\* The child may exit, and its exit be observed, while Stop is under way.
StopNext ==
    \/ \E c \in Callers : StopCall(c)
    \/ \E c \in Callers : StopSet(c)
    \/ \E c \in Callers : StopTerm(c)
    \/ \E c \in Callers : StopGrace(c)
    \/ \E c \in Callers : StopKill(c)
    \/ ChildExits
    \/ WaitObserve

----
\* hook.Manager.HandleEvent(event, ignoreErrors) over the hooks of m.Hooks.
\* An environment string "NAME=value" is kept as its two parts.
EnvString(name, value) == [name |-> name, value |-> value]

\* What hook h may return as its Env: nothing, one string, or two strings
\* the second of which has a name other hooks use too.
HookEnvs(h) ==
    { <<>>,
      <<EnvString(<<"HOOK">>, h)>>,
      <<EnvString(<<"HOOK">>, h), EnvString(<<"SHARED">>, h)>> }

NoCall == [done |-> FALSE, calls |-> <<>>, env |-> <<>>, err |-> 0]

FirstErrorReturn_KeepEnv(called, combinedEnv, h) ==
    [done |-> TRUE, calls |-> called, env |-> combinedEnv, err |-> h]

\* return nil, err: the error of hook h, and a nil Env.
FirstErrorReturn(called, combinedEnv, h) ==
    [done |-> TRUE, calls |-> called, env |-> <<>>, err |-> h]

CombineEnv_AlsoFailed(combinedEnv, moreEnvValues, failed) == combinedEnv \o moreEnvValues

\* combinedEnv after one hook: append(combinedEnv, moreEnvValues...) in the
\* else branch, untouched when the hook returned an error.
CombineEnv(combinedEnv, moreEnvValues, failed) ==
    IF failed THEN combinedEnv ELSE combinedEnv \o moreEnvValues

\* The loop over m.Hooks from hook i on; in: ignoreErrors, fails and env of
\* every hook; err 0 is a nil error, err h the error hook h returned.
RECURSIVE HandleEventFrom(_, _, _, _)
HandleEventFrom(i, in, called, combinedEnv) ==
    IF i > NumHooks
    THEN [done |-> TRUE, calls |-> called, env |-> combinedEnv, err |-> 0]
    ELSE IF in.fails[i] /\ ~in.ignoreErrors
         THEN FirstErrorReturn(Append(called, i), combinedEnv, i)
         ELSE HandleEventFrom(i + 1, in, Append(called, i),
                              CombineEnv(combinedEnv, in.env[i], in.fails[i]))

HandleEvent(in) == HandleEventFrom(1, in, <<>>, <<>>)

HookInputs ==
    [ignoreErrors : BOOLEAN,
     fails : [Hooks -> BOOLEAN],
     env : {f \in [Hooks -> UNION {HookEnvs(h) : h \in Hooks}] :
                \A h \in Hooks : f[h] \in HookEnvs(h)}]

\* A call of Manager.HandleEvent.
ManagerHandleEvent ==
    /\ ~hookOut.done
    /\ hookOut' = HandleEvent(hookIn)
    /\ UNCHANGED <<hookIn, envIn, cmdEnv, certIn, certOut, sideVars>>
    /\ UNCHANGED <<orchVars, updVars, callVars>>

HookInit ==
    /\ hookIn \in HookInputs
    /\ hookOut = NoCall

HookIdle ==
    /\ hookIn = [ignoreErrors |-> FALSE, fails |-> [h \in Hooks |-> FALSE],
                 env |-> [h \in Hooks |-> <<>>]]
    /\ hookOut = NoCall

HookNext == ManagerHandleEvent

----
\* The environment of the child: launchTask and NewCommand.
MaxEnv == 2

\* const EnvironmentPrefix = "allegro_executor"
EnvironmentPrefix == "allegro_executor"

\* Names of environment variables, as the pieces they are made of.
ExecutorNames ==
    { <<"ALLEGRO_EXECUTOR", "_DEBUG">>,
      <<"allegro_executor", "_debug">>,
      <<"_", "ALLEGRO_EXECUTOR", "_">>,
      <<"PATH">> }

\* os.Environ(): one string per name.
Environs ==
    {e \in UNION {[1..n -> {EnvString(nm, "executor") : nm \in ExecutorNames}] : n \in 0..MaxEnv} :
        \A i, j \in DOMAIN e : i # j => e[i].name # e[j].name}

\* A mesos.Environment_Variable.
Variable(name, value) == [Name |-> name, Value |-> value]

\* commandInfo.GetEnvironment().GetVariables()
TaskEnvironments ==
    { <<>>,
      <<Variable(<<"SHARED">>, "task")>>,
      <<Variable(<<"TASK">>, "task"), Variable(<<"SHARED">>, "task")>> }

\* What the BeforeTaskStart hooks returned.
HookEnvironments ==
    { <<>>,
      <<EnvString(<<"SHARED">>, "hook")>>,
      <<EnvString(<<"HOOK">>, "hook"), EnvString(<<"SHARED">>, "hook")>> }

\* fmt.Sprintf("%s=%s", variable.Name, variable.Value)
Sprintf(variable) == EnvString(variable.Name, variable.Value)

\* combineExecutorAndTaskEnv(env, mesosEnv): env, then the task's variables.
combineExecutorAndTaskEnv(env, mesosEnv) ==
    env \o [i \in DOMAIN mesosEnv |-> Sprintf(mesosEnv[i])]

\* NewCommand(commandInfo, env): the cmd.Env of the command.
NewCommand(mesosEnv, env) == combineExecutorAndTaskEnv(env, mesosEnv)

\* launchTask: env := os.Environ(), hookEnv from the BeforeTaskStart hooks,
\* and NewCommand(commandInfo, append(env, hookEnv...)).
launchTaskEnv(in) == NewCommand(in.task, in.environ \o in.hook)

\* launchTask builds the command of the child.
LaunchBuildsCommand ==
    /\ ~cmdEnv.set
    /\ cmdEnv' = [set |-> TRUE, env |-> launchTaskEnv(envIn)]
    /\ UNCHANGED <<hookIn, hookOut, envIn, certIn, certOut, sideVars>>
    /\ UNCHANGED <<orchVars, updVars, callVars>>

EnvInit ==
    /\ envIn \in [environ : Environs, task : TaskEnvironments, hook : HookEnvironments]
    /\ cmdEnv = [set |-> FALSE, env |-> <<>>]

EnvNext == LaunchBuildsCommand

----
\* Executor.checkCert.  A time.Duration is a signed integer of fixed width:
\* the 64 bits of the program are scaled down to the values
\* MinDuration..MaxDuration, with the same saturation and wrap-around.
MaxDuration == 7
MinDuration == 0 - MaxDuration - 1
DurationModulus == 2 * (MaxDuration + 1)

MaxJitter == 2

\* time.Time.Sub: the difference, or the largest (smallest) Duration when it
\* does not fit.
Sub(t, u) ==
    IF t - u > MaxDuration THEN MaxDuration
    ELSE IF t - u < MinDuration THEN MinDuration
    ELSE t - u

\* systemClock.Until(t) = time.Until(t) = t.Sub(time.Now())
Until(t, clock) == Sub(t, clock)

\* The difference of two Durations: integer arithmetic that wraps around.
Minus(d, e) == ((d - e - MinDuration) % DurationModulus) + MinDuration

\* certDuration := e.clock.Until(cert.NotAfter) - e.random.Duration(range)
certDuration(in) == Minus(Until(in.notAfter, in.now), in.jitter)

\* checkCert(cert): an error when certDuration <= 0, else time.AfterFunc.
checkCert ==
    /\ ~certOut.done
    /\ LET d == certDuration(certIn)
       IN  /\ certOut' = [done |-> TRUE, err |-> (d <= 0), duration |-> d]
           /\ certArmed' = (d > 0)
    /\ UNCHANGED <<events, loopPc, ctxDone, framework, taskInfo, cmd, fireHealthyHook,
                   updates, hookLog, trace, lastHandled, inputsLeft>>
    /\ UNCHANGED <<childVars, healthVars, linkVars, stopVars>>
    /\ UNCHANGED <<hookIn, hookOut, envIn, cmdEnv, certIn, sideVars>>
    /\ UNCHANGED <<updVars, callVars>>

\* cert.NotAfter, the clock, and random.Duration(range) in [0, range).
CertInit ==
    /\ certIn \in [notAfter : (MinDuration - 3)..(MaxDuration + 3),
                    now : 0..MaxStart,
                    jitter : 0..MaxJitter]
    /\ certOut = [done |-> FALSE, err |-> FALSE, duration |-> 0]

\* The function given to time.AfterFunc runs when the timer fires.
CertNext ==
    \/ checkCert
    \/ CertExpires

----
\* The parts of the state a specification does not use stay at these values.
UpdIdle ==
    /\ buffer = <<>>
    /\ unAckStatuses = {}
    /\ workerPc = "select"
    /\ held = 0
    /\ produced = 0
    /\ delivered = {}
    /\ acked = {}
    /\ failsLeft = 0
    /\ updCtxDone = FALSE
    /\ waitPc = "notcalled"
    /\ waitTicks = 0

CallIdle ==
    /\ stopPc = [c \in {} |-> "idle"]
    /\ graceWaits = 0

\* KillTree(signal, pid) on a process tree (the newer kill.go).
MaxProcs == 3
MaxGroups == 3

Procs == 1..MaxProcs
Pgids == 1..MaxGroups

\* The pid given to KillTree: the child the executor started, the oldest
\* process of its tree.
RootPid == CHOOSE p \in Procs : \A q \in Procs : p <= q

\* A set of pids as a sequence, in ascending order.
RECURSIVE Ascending(_)
Ascending(S) ==
    IF S = {} THEN <<>>
    ELSE LET m == CHOOSE x \in S : \A y \in S : x <= y
         IN  <<m>> \o Ascending(S \ {m})

\* proc.Children(): the processes whose parent is p.
Children(in, p) == Ascending({q \in Procs : in.parent[q] = p})

\* getAllChildren(proc): the children, then the descendants of each child.
RECURSIVE getAllChildren(_, _)
RECURSIVE DescendantsFrom(_, _, _)
DescendantsFrom(in, children, i) ==
    IF i > Len(children) THEN <<>>
    ELSE getAllChildren(in, children[i]) \o DescendantsFrom(in, children, i + 1)

getAllChildren(in, p) == Children(in, p) \o DescendantsFrom(in, Children(in, p), 1)

\* processes = append(getAllChildren(proc), proc)
Processes(in) == Append(getAllChildren(in, RootPid), RootPid)

SkipGroup_Never(pgid, curPgid) == FALSE

\* if pgid == curPgid { continue }
SkipGroup(pgid, curPgid) == pgid = curPgid

\* pgidsSeen[pgid]
SeenGroup(pgid, pgids) == \E j \in DOMAIN pgids : pgids[j] = pgid

\* getProcessGroupsInTree: the loop over processes, from the i-th on.
RECURSIVE CollectGroups(_, _, _, _)
CollectGroups(in, processes, i, pgids) ==
    IF i > Len(processes) THEN pgids
    ELSE LET pgid == in.pgid[processes[i]]
         IN  CollectGroups(in, processes, i + 1,
                 IF SkipGroup(pgid, in.curPgid) \/ SeenGroup(pgid, pgids)
                 THEN pgids ELSE Append(pgids, pgid))

\* getProcessGroupsInTree returns an error: NewProcess or Getpgid fails for
\* a process of the tree (in.gone, 0 for none).
GroupsErr(in) == \E j \in DOMAIN Processes(in) : Processes(in)[j] = in.gone

getProcessGroupsInTree(in) == CollectGroups(in, Processes(in), 1, <<>>)

\* sendSignalsToProcessGroups: for each signal, for each group, one
\* syscall.Kill(-pgid, signal); its error is logged only.
RECURSIVE SendToGroups(_, _, _)
SendToGroups(signal, pgids, j) ==
    IF j > Len(pgids) THEN <<>>
    ELSE <<[signal |-> signal, pgid |-> pgids[j]]>> \o SendToGroups(signal, pgids, j + 1)

RECURSIVE sendSignalsToProcessGroups(_, _, _)
sendSignalsToProcessGroups(sigs, pgids, i) ==
    IF i > Len(sigs) THEN <<>>
    ELSE SendToGroups(sigs[i], pgids, 1)
         \o sendSignalsToProcessGroups(sigs, pgids, i + 1)

\* KillTree(signal, pid): what it sends and returns.
KillTreeRun(in) ==
    IF GroupsErr(in)
    THEN [done |-> TRUE, err |-> TRUE, pgids |-> <<>>, sent |-> <<>>]
    ELSE [done |-> TRUE, err |-> FALSE, pgids |-> getProcessGroupsInTree(in),
          sent |-> sendSignalsToProcessGroups(wrapWithStopAndCont(in.signal),
                                              getProcessGroupsInTree(in), 1)]

KillTreeCall ==
    /\ ~killOut.done
    /\ killOut' = KillTreeRun(killIn)
    /\ UNCHANGED <<orchVars, updVars, callVars>>
    /\ UNCHANGED <<hookIn, hookOut, envIn, cmdEnv, certIn, certOut, burstVars, killIn>>

\* Any tree below the child (a parent has a smaller pid; 0: the process is
\* not in the tree), any grouping of the processes, any group as the
\* executor's own, either signal of Stop, any process gone meanwhile.
KillInit ==
    /\ killIn \in [signal : {"SIGTERM", "SIGKILL"},
                    parent : {f \in [Procs -> 0..MaxProcs] : \A q \in Procs : f[q] < q},
                    pgid : [Procs -> Pgids],
                    curPgid : Pgids,
                    gone : 0..MaxProcs]
    /\ killOut = [done |-> FALSE, err |-> FALSE, pgids |-> <<>>, sent |-> <<>>]

KillNext == KillTreeCall

KillIdle ==
    /\ killIn = [signal |-> "SIGTERM", parent |-> [q \in Procs |-> 0],
                 pgid |-> [q \in Procs |-> 1], curPgid |-> 1, gone |-> 0]
    /\ killOut = [done |-> FALSE, err |-> FALSE, pgids |-> <<>>, sent |-> <<>>]

EnvIdle ==
    /\ envIn = [environ |-> <<>>, task |-> <<>>, hook |-> <<>>]
    /\ cmdEnv = [set |-> FALSE, env |-> <<>>]

CertIdle ==
    /\ certIn = [notAfter |-> 0, now |-> 0, jitter |-> 0]
    /\ certOut = [done |-> FALSE, err |-> FALSE, duration |-> 0]

LinkHoldsNothing == linkHolds = NoEvent /\ burstSent = 0

SideIdle == LinkHoldsNothing /\ KillIdle

FunIdle == HookIdle /\ EnvIdle /\ CertIdle /\ SideIdle

Init == OrchInit /\ UpdIdle /\ CallIdle /\ FunIdle

Next == OrchNext

Spec == Init /\ [][Next]_vars

\* The status reporter on its own; the orchestrator is at rest.
InitUpd == OrchInit /\ UpdInit /\ CallIdle /\ FunIdle

NextUpd == UpdNext

SpecUpd == InitUpd /\ [][NextUpd]_vars

\* The worker goroutine is scheduled fairly, the agent's acknowledgements
\* arrive, and a Wait that was called sees its ticker tick; the number of
\* failing POSTs is bounded by MaxFails.  Whether and when Start calls Wait
\* is left open.
FairSpecUpd ==
    /\ SpecUpd
    /\ WF_vars(WorkerReceive)
    /\ WF_vars(WorkerRecord)
    /\ WF_vars(WorkerSendOk)
    /\ WF_vars(WorkerRequeue)
    /\ WF_vars(Acknowledge)
    /\ WF_vars(WaitTick)
    /\ WF_vars(WaitReadUnack)
    /\ WF_vars(StartReturns)

NextLink == LinkNext

SpecLink == Init /\ [][NextLink]_vars

\* Time passes, so an armed recovery timer fires; a select that finds
\* recoveryTimeout.C ready at every iteration takes that case in the end.
FairSpecLink ==
    /\ SpecLink
    /\ WF_vars(RecoveryTimerFires)
    /\ WF_vars(LinkRecoveryTimeout)

\* The goroutines of the executor are scheduled, and a select that finds the
\* cancelled context ready at every iteration takes that case in the end;
\* what the agent sends, and whether it keeps the stream open, is left open.
FairSpecCancel ==
    /\ FairSpecLink
    /\ WF_vars(LinkContextDone)
    /\ WF_vars(LoopSubscribed \/ LoopLaunch \/ LoopKill \/ LoopShutdown)

\* The orchestrator with an agent that may send LAUNCH more than once.
NextRelaunch == RelaunchNext

SpecRelaunch == Init /\ [][NextRelaunch]_vars

\* KillTree called on every small process tree.
InitKill == OrchInit /\ UpdIdle /\ CallIdle /\ HookIdle /\ EnvIdle /\ CertIdle
            /\ LinkHoldsNothing /\ KillInit

NextKill == KillNext

SpecKill == InitKill /\ [][NextKill]_vars

\* A launched task with a health check, the link not yet subscribed, and an
\* agent that sends at most EventsCap KILL or SHUTDOWN events, all alike.
InitBurst == OrchStateHC(LaunchID, "cmd", "running", TRUE) /\ UpdIdle /\ CallIdle /\ FunIdle

NextBurst == BurstNext

SpecBurst == InitBurst /\ [][NextBurst]_vars

\* The health supervisor of a launched task; what it sends stays in the
\* channel, in the order sent.
InitHealth == OrchState(LaunchID, "cmd", "running") /\ UpdIdle /\ CallIdle /\ FunIdle

NextHealth == HealthNext

SpecHealth == InitHealth /\ [][NextHealth]_vars

\* Stop called concurrently on the command of a launched task.
InitStop == StopInit /\ UpdIdle /\ FunIdle

NextStop == StopNext

SpecStop == InitStop /\ [][NextStop]_vars

\* Manager.HandleEvent called with every combination of failing hooks,
\* returned environments and ignoreErrors.
InitHook == OrchInit /\ UpdIdle /\ CallIdle /\ HookInit /\ EnvIdle /\ CertIdle /\ SideIdle

NextHook == HookNext

SpecHook == InitHook /\ [][NextHook]_vars

\* The command of the child built for every executor environment, task
\* environment and hook environment within the bounds.
InitEnv == OrchInit /\ UpdIdle /\ CallIdle /\ HookIdle /\ EnvInit /\ CertIdle /\ SideIdle

NextEnv == EnvNext

SpecEnv == InitEnv /\ [][NextEnv]_vars

\* checkCert called for certificates that expire before and after now, near
\* and far, and the timer it arms.
InitCert == OrchInit /\ UpdIdle /\ CallIdle /\ HookIdle /\ EnvIdle /\ CertInit /\ SideIdle

NextCert == CertNext

SpecCert == InitCert /\ [][NextCert]_vars

----
\* Properties.

LastUpdate == updates[Len(updates)]

TerminalCount == Cardinality({i \in DOMAIN updates : updates[i].state \in Terminal})

ReachedStarting == \E i \in DOMAIN updates : updates[i].state = "TASK_STARTING"

SentTo(h, type) == \E i \in DOMAIN hookLog : hookLog[i] = [hook |-> h, type |-> type]

LastSentTo(h) ==
    LET idx == {i \in DOMAIN hookLog : hookLog[i].hook = h}
    IN  hookLog[CHOOSE i \in idx : \A j \in idx : j <= i].type

Rounds(signal) == Cardinality({i \in DOMAIN signals : signals[i] = signal})

\* C1: for a task that reached STARTING the orchestrator emits exactly one
\* terminal status (FINISHED, FAILED or KILLED): never a second one, and not
\* none once the event loop has stopped.
C1_ExactlyOneTerminal ==
    ReachedStarting =>
        /\ TerminalCount <= 1
        /\ loopPc = "returned" => TerminalCount = 1

\* C2: Wait returns ok only when every update produced so far has been
\* POSTed to the agent and acknowledged.
C2_WaitOkAllAcknowledged ==
    waitPc = "ok" => \A id \in 1..produced : id \in delivered /\ id \in acked

\* C3: at-least-once delivery: every produced update is eventually POSTed
\* successfully, unless Wait has cancelled the worker.
C3_AtLeastOnce ==
    \A id \in UUIDs : (id <= produced) ~> (id \in delivered \/ updCtxDone)

\* C4: once a Shutdown event has been processed the event loop has stopped
\* and the root context is cancelled.
C4_ShutdownTerminates ==
    lastHandled.type = "Shutdown" => (loopPc = "returned" /\ ctxDone)

\* C5: once a Kill event has been processed - with or without a launched
\* task - the stop of the child, if there is one, has been invoked, the last
\* status emitted is KILLED with the TaskID of the Kill event, the event loop
\* has returned and the root context is cancelled.
C5_KillExits ==
    lastHandled.type = "Kill" =>
        /\ loopPc = "returned"
        /\ ctxDone
        /\ cmd # "nil" => killing
        /\ updates # <<>>
        /\ LastUpdate = StatusMsg(lastHandled.tid, "TASK_KILLED", "none", KillMessage)

\* A Kill carrying another TaskID than the launched task's was processed
\* while a child existed.
C5_Witness ==
    /\ lastHandled.type = "Kill"
    /\ cmd = "cmd"
    /\ taskInfo = LaunchID
    /\ lastHandled.tid # taskInfo
    /\ loopPc = "returned"

\* C6: when the child exits by itself with return code 0 the terminal status
\* is TASK_FINISHED.
C6_CleanExitFinished ==
    (lastHandled = Ev("CommandExited", EmptyID, "success") /\ ~exitAfterStop)
        => LastUpdate.state = "TASK_FINISHED"

\* C7: when the executor has exited, every hook has received BeforeTerminate
\* and it is the last event that hook received.
C7_BeforeTerminateAlways ==
    linkPc = "returned" =>
        \A h \in Hooks : SentTo(h, "BeforeTerminate") /\ LastSentTo(h) = "BeforeTerminate"

\* C8: when Start gives up after the recovery timeout, a started task has
\* been stopped: the child is not left running without Stop having been
\* invoked.
C8_RecoveryTimeoutStopsTask ==
    (linkPc = "fatal" /\ cmd # "nil") => (killing \/ childState = "exited")

\* C9: concurrent Stop calls perform the SIGTERM round, the grace wait and
\* the SIGKILL round once in total.
C9_ConcurrentStopOnce ==
    /\ Rounds("SIGTERM") <= 1
    /\ graceWaits <= 1
    /\ Rounds("SIGKILL") <= 1

\* C10: when a Stop call that was not a no-op has returned, the SIGKILL
\* round has been performed on the process tree.
C10_StopAlwaysKills ==
    \A c \in Callers : stopPc[c] = "done" => Rounds("SIGKILL") >= 1

\* C11 (as stated): as soon as update(T, RUNNING) has returned, and with no
\* acknowledgement, unacknowledged() holds exactly one entry.
C11_ImmediatelyUnacknowledged ==
    (produced = 1 /\ acked = {}) => Cardinality(GetUnacknowledged) = 1

\* C11 (amended): once the worker has POSTed an update to the agent, and
\* until it is acknowledged, unacknowledged() holds its entry with state
\* RUNNING - exactly that one entry when it is the only update - and
\* acknowledge(uuid) removes the entry: when it returns the entry is not
\* listed, and the list is empty when it was the only update.
C11_UnacknowledgedOnceSent ==
    /\ [](\A id \in delivered \ acked : StatusOf(id) \in GetUnacknowledged)
    /\ []((produced = 1 /\ delivered = {1} /\ acked = {}) =>
            GetUnacknowledged = {[uuid |-> 1, state |-> "TASK_RUNNING"]})
    /\ [][\A id \in UUIDs : (id \notin acked /\ id \in acked') =>
            /\ StatusOf(id) \notin GetUnacknowledged'
            /\ produced = 1 => GetUnacknowledged' = {}
         ]_vars

\* The only update was sent, listed as unacknowledged, and acknowledged.
C11_Witness ==
    /\ produced = 1
    /\ delivered = {1}
    /\ acked = {1}
    /\ GetUnacknowledged = {}

InTrace(k, v) == \E i \in DOMAIN trace : trace[i] = T(k, v)

\* A step of launchTask has failed.
LaunchFailed ==
    \/ InTrace("cert", "error")
    \/ InTrace("scrape", "error")
    \/ InTrace("hookerr", "BeforeTaskStart")
    \/ InTrace("start", "error")

\* C12: when a launch step has failed, the statuses emitted are exactly
\* STARTING then FAILED with a 'Cannot launch task: <error>' message (so no
\* RUNNING), there is no command and no running child, and the event loop has
\* returned and cancelled the context.
C12_LaunchFailure ==
    LaunchFailed =>
        /\ Len(updates) = 2
        /\ updates[1] = Status(taskInfo, "TASK_STARTING", "none")
        /\ updates[2].tid = taskInfo
        /\ updates[2].state = "TASK_FAILED"
        /\ Len(updates[2].msg) = 2
        /\ updates[2].msg[1] = "Cannot launch task"
        /\ cmd = "nil"
        /\ childState = "none"
        /\ loopPc = "returned"
        /\ ctxDone

\* A BeforeTaskStart hook failed after the certificate had been accepted, and
\* the executor has exited.
C12_Witness ==
    /\ InTrace("hookerr", "BeforeTaskStart")
    /\ InTrace("cert", "armed")
    /\ Len(updates) = 2
    /\ linkPc = "returned"

\* Number of calls of hook h with an event of the given type.
CallCount(h, type) ==
    Cardinality({i \in DOMAIN hookLog : hookLog[i] = [hook |-> h, type |-> type]})

\* The loop takes a Healthy event off the channel in this step.
HealthyStep ==
    /\ events # <<>>
    /\ Head(events).type = "Healthy"
    /\ events' = Tail(events)

\* C13: no hook receives AfterTaskHealthy more than once; the first Healthy
\* event runs the hooks, a later one - also after Unhealthy events - runs
\* none, and every Healthy event after which the loop goes on emits RUNNING
\* with healthy=true.
C13_AfterHealthyOnce ==
    /\ [](\A h \in Hooks : CallCount(h, "AfterTaskHealthy") <= 1)
    /\ [][HealthyStep =>
            /\ InTrace("hook", "AfterTaskHealthy") => hookLog' = hookLog
            /\ ~InTrace("hook", "AfterTaskHealthy") =>
                    CallCount(1, "AfterTaskHealthy")' = 1
            /\ loopPc' = "running" =>
                    updates' = Append(updates, Status(taskInfo, "TASK_RUNNING", "true"))
         ]_vars

\* Two Healthy events with an Unhealthy one between them were processed, and
\* every hook was called once.
C13_Witness ==
    /\ \E i, j, k \in DOMAIN updates :
        /\ i < j /\ j < k
        /\ updates[i].healthy = "true"
        /\ updates[j].healthy = "false"
        /\ updates[k].healthy = "true"
    /\ \A h \in Hooks : CallCount(h, "AfterTaskHealthy") = 1

\* C14: when an AfterTaskHealthy hook has returned an error, the shutdown
\* sequence has run (BeforeTerminate to every hook, then Stop of the child),
\* the last status is FAILED, emitted after the stop, no RUNNING with
\* healthy=true was emitted, the loop has returned with the context
\* cancelled, and no hook - the failing one included - received
\* AfterTaskHealthy more than once.
C14_AfterHealthyHookFails ==
    InTrace("hookerr", "AfterTaskHealthy") =>
        LET n == Len(trace)
        IN  /\ loopPc = "returned"
            /\ ctxDone
            /\ LastUpdate = StatusMsg(taskInfo, "TASK_FAILED", "none", AfterHealthyFailedMessage)
            /\ \A i \in DOMAIN updates : updates[i].healthy # "true"
            /\ n > NumHooks + 2
            /\ trace[n] = T("update", "TASK_FAILED")
            /\ trace[n - 1].k = "stop"
            /\ \A i \in 1..NumHooks : trace[n - 1 - i] = T("hook", "BeforeTerminate")
            /\ \A h \in Hooks : SentTo(h, "BeforeTerminate")
            /\ killing
            /\ CallCount(1, "AfterTaskHealthy") = 1
            /\ \A h \in Hooks : CallCount(h, "AfterTaskHealthy") <= 1

\* The second hook failed on the first Healthy event, the child was stopped
\* by that shutdown, and the executor has exited.
C14_Witness ==
    /\ InTrace("hookerr", "AfterTaskHealthy")
    /\ CallCount(NumHooks, "AfterTaskHealthy") = 1
    /\ InTrace("stop", "run")
    /\ linkPc = "returned"

KillingCount == Cardinality({i \in DOMAIN updates : updates[i].state = "TASK_KILLING"})

\* C15: KILLING is emitted at most once and before any terminal status, and
\* once a Kill has shut a launched task down KILLING was emitted exactly when
\* the framework has the TASK_KILLING_STATE capability; with only STARTING
\* and RUNNING emitted before the Kill, the statuses are STARTING, RUNNING,
\* KILLING, KILLED with the capability and STARTING, RUNNING, KILLED without.
C15_KillingIffCapability ==
    /\ KillingCount <= 1
    /\ \A i, j \in DOMAIN updates :
        (updates[i].state = "TASK_KILLING" /\ updates[j].state \in Terminal) => i < j
    /\ (lastHandled.type = "Kill" /\ cmd # "nil") =>
        /\ (KillingCount = 1) <=> framework
        /\ LET n == Len(updates)
           IN  /\ updates[n].state = "TASK_KILLED"
               /\ framework => updates[n - 1].state = "TASK_KILLING"
               /\ n = (IF framework THEN 4 ELSE 3) =>
                    /\ updates[1].state = "TASK_STARTING"
                    /\ updates[2].state = "TASK_RUNNING"

\* The terminal state of the two FailedDueTo events.
FailedDueToTerminal(type) ==
    IF type = "FailedDueToUnhealthy" THEN "TASK_FAILED" ELSE "TASK_KILLED"

\* C16: once FailedDueToUnhealthy or FailedDueToExpiredCertificate has been
\* processed, the loop did, in this order and as its last steps: emit RUNNING
\* with healthy=false, shut the child down (KILLING if the capability is
\* there, BeforeTerminate to every hook, Stop), emit the terminal status -
\* FAILED for the unhealthy variant, KILLED for the certificate variant -
\* and it has returned with the context cancelled.
C16_FailedDueToSequence ==
    lastHandled.type \in {"FailedDueToUnhealthy", "FailedDueToExpiredCertificate"} =>
        LET n == Len(trace)
            m == Len(updates)
            r == n - 2 - NumHooks - (IF framework THEN 1 ELSE 0)
            u == m - 1 - (IF framework THEN 1 ELSE 0)
        IN  /\ loopPc = "returned"
            /\ ctxDone
            /\ killing
            /\ r >= 1 /\ u >= 1
            /\ trace[n] = T("update", FailedDueToTerminal(lastHandled.type))
            /\ trace[n - 1].k = "stop"
            /\ \A i \in 1..NumHooks : trace[n - 1 - i] = T("hook", "BeforeTerminate")
            /\ framework => trace[r + 1] = T("update", "TASK_KILLING")
            /\ trace[r] = T("update", "TASK_RUNNING")
            /\ updates[u] = StatusMsg(taskInfo, "TASK_RUNNING", "false", <<lastHandled.msg>>)
            /\ updates[m] = StatusMsg(taskInfo, FailedDueToTerminal(lastHandled.type),
                                      "false", <<lastHandled.msg>>)

\* The task failed its health checks while running, was stopped by that
\* shutdown and reported FAILED.
C16_Witness ==
    /\ lastHandled.type = "FailedDueToUnhealthy"
    /\ LastUpdate.state = "TASK_FAILED"
    /\ InTrace("stop", "run")
    /\ childState = "running"

\* The checks so far, as the supervisor has to treat them.
PassedBefore(i) == \E j \in 1..(i - 1) : ~hcResults[j].failed

Suppressed(i) ==
    /\ hcResults[i].failed
    /\ ~PassedBefore(i)
    /\ hcResults[i].since < checkDefinition.grace

Counted(i) == hcResults[i].failed /\ ~Suppressed(i)

\* Length of the run of counted failures the results end with.
FailRun ==
    LET n == Len(hcResults)
        R == {r \in 0..n : \A i \in (n - r + 1)..n : Counted(i)}
    IN  CHOOSE r \in R : \A q \in R : q <= r

\* C17: with max_consecutive_failures = K, a run of r <= K consecutive
\* failing checks that are not suppressed by the grace period has sent one
\* event each: Unhealthy for the first K-1 of them, FailedDueToUnhealthy for
\* the K-th.
C17_KthFailureFails ==
    LET r == FailRun
        m == Len(events)
    IN  (r >= 1 /\ r <= MaxConsecutiveFailures) =>
            /\ m >= r
            /\ \A i \in 1..r :
                events[m - r + i].type =
                    IF i < MaxConsecutiveFailures THEN "Unhealthy" ELSE "FailedDueToUnhealthy"

\* K failures in a row after a passing check.
C17_Witness ==
    /\ FailRun = MaxConsecutiveFailures
    /\ Len(hcResults) = MaxConsecutiveFailures + 1
    /\ events[Len(events)].type = "FailedDueToUnhealthy"
    /\ events[1].type = "Healthy"

SuppressedLast == hcResults # <<>> /\ Suppressed(Len(hcResults))

\* C18: a failing check of a task that never passed, made while
\* time.Since(startTime) is below the grace period, sends no event and
\* leaves consecutive_failures as it was; while all checks were such, nothing
\* was sent and the count is 0.
C18_GraceSuppression ==
    /\ []((hcResults # <<>> /\ \A i \in DOMAIN hcResults : Suppressed(i)) =>
            (events = <<>> /\ consecutiveFailures = 0))
    /\ [][(hcResults' # hcResults /\ SuppressedLast') =>
            (events' = events /\ consecutiveFailures' = consecutiveFailures)]_vars

\* Two failing checks within the grace period, nothing sent.
C18_Witness ==
    /\ Len(hcResults) = 2
    /\ \A i \in DOMAIN hcResults : Suppressed(i)
    /\ hcResults[2].since > 0
    /\ events = <<>>

\* The last check passed, in this step.
PassStep ==
    /\ hcResults' # hcResults
    /\ ~hcResults'[Len(hcResults')].failed

\* C19: a passing check that follows counted failures (Unhealthy events)
\* sends exactly one Healthy and resets consecutive_failures; a passing check
\* that follows a passing check sends nothing.
C19_HealthyOncePerRecovery ==
    [][PassStep =>
        /\ consecutiveFailures' = 0
        /\ FailRun >= 1 => events' = Append(events, Ev("Healthy", EmptyID, ""))
        /\ (hcResults # <<>> /\ ~hcResults[Len(hcResults)].failed) => events' = events
      ]_vars

\* An Unhealthy, then a pass that sent Healthy, then a pass that sent nothing.
C19_Witness ==
    /\ Len(hcResults) = 3
    /\ Counted(1)
    /\ ~hcResults[2].failed
    /\ ~hcResults[3].failed
    /\ Len(events) = 2
    /\ events[1].type = "Unhealthy"
    /\ events[2].type = "Healthy"

\* C20: with an agent that never accepts a subscribe, Start ends with the
\* fatal error: in every behaviour either some subscribe call succeeds or
\* Start returns the 're-establish subscription' error, however many
\* subscribe calls fail.
C20_FatalWithoutSubscribe == <>(accepted \/ linkPc = "fatal")

\* Start gave up after failed subscribe calls only.
C20_Witness ==
    /\ linkPc = "fatal"
    /\ ~accepted
    /\ subscribeFails = MaxSubscribeFails

\* The hooks in list order up to hook n.
UpTo(n) == [i \in 1..n |-> i]

FailingHooks == {h \in Hooks : hookIn.fails[h]}

\* The environment additions of the hooks up to hook n that succeeded.
RECURSIVE SucceededEnv(_)
SucceededEnv(n) ==
    IF n = 0 THEN <<>>
    ELSE SucceededEnv(n - 1) \o (IF hookIn.fails[n] THEN <<>> ELSE hookIn.env[n])

\* C21: HandleEvent with ignore_errors=false and a failing hook has called
\* the hooks in list order up to the first failing one and no later hook,
\* returns the error of that hook, and returns no environment additions.
C21_FailFast ==
    (hookOut.done /\ ~hookIn.ignoreErrors /\ FailingHooks # {}) =>
        /\ hookOut.calls = UpTo(FirstFailing(FailingHooks))
        /\ hookOut.err = FirstFailing(FailingHooks)
        /\ hookOut.env = <<>>

\* The last hook failed after the hooks before it had returned variables.
C21_Witness ==
    /\ hookOut.done
    /\ ~hookIn.ignoreErrors
    /\ FailingHooks = {NumHooks}
    /\ \A h \in Hooks : Len(hookIn.env[h]) = 2
    /\ hookOut.err = NumHooks

\* C22: HandleEvent with ignore_errors=true has called every hook once, in
\* list order, returns no error, and returns the environment additions of
\* exactly the hooks that succeeded, concatenated in hook order.
C22_BestEffort ==
    (hookOut.done /\ hookIn.ignoreErrors) =>
        /\ hookOut.calls = UpTo(NumHooks)
        /\ hookOut.err = 0
        /\ hookOut.env = SucceededEnv(NumHooks)

\* The first hook failed with variables in hand, the others succeeded with
\* variables, and every hook was called.
C22_Witness ==
    /\ hookOut.done
    /\ hookIn.ignoreErrors
    /\ FailingHooks = {1}
    /\ \A h \in Hooks : Len(hookIn.env[h]) = 2
    /\ Len(hookOut.calls) = NumHooks
    /\ Len(hookOut.env) = 2 * (NumHooks - 1)

\* The Stop call of caller d has returned.
StopReturned(d) == stopPc[d] \in {"done", "noop"}

\* C23: a Stop call made after a Stop call on the same command has returned
\* is a no-op: it returns at the test of c.killing, sends no signal and does
\* not wait, and it does nothing afterwards either.
C23_StopIdempotent ==
    [][\A c \in Callers :
        /\ (stopPc[c] = "idle" /\ stopPc'[c] # "idle"
                /\ \E d \in Callers : StopReturned(d)) =>
                (stopPc'[c] = "noop" /\ signals' = signals /\ graceWaits' = graceWaits)
        /\ stopPc[c] = "noop" => stopPc'[c] = "noop"
      ]_vars

\* A first call ran both signal rounds and returned, a later call was a
\* no-op.
C23_Witness ==
    \E c, d \in Callers :
        /\ stopPc[c] = "done"
        /\ stopPc[d] = "noop"
        /\ Rounds("SIGTERM") = 1
        /\ Rounds("SIGKILL") = 1
        /\ graceWaits = 1

Range(seq) == {seq[i] : i \in DOMAIN seq}

\* strings.ToUpper on the pieces names are made of.
ToUpper(piece) ==
    IF piece = "allegro_executor" THEN "ALLEGRO_EXECUTOR"
    ELSE IF piece = "_debug" THEN "_DEBUG"
    ELSE piece

\* The name starts with the configuration prefix, in any letter case.
HasConfigPrefix(name) == name # <<>> /\ ToUpper(name[1]) = ToUpper(EnvironmentPrefix)

\* C24: in the environment of the child there is no variable of the
\* executor's environment whose name starts with the configuration prefix in
\* any letter case, and every other variable of the executor's environment
\* is there unchanged.
C24_ConfigNotLeaked ==
    cmdEnv.set =>
        \A i \in DOMAIN envIn.environ :
            IF HasConfigPrefix(envIn.environ[i].name)
            THEN envIn.environ[i] \notin Range(cmdEnv.env)
            ELSE envIn.environ[i] \in Range(cmdEnv.env)

\* The task's variables as environment strings.
TaskStrings == [i \in DOMAIN envIn.task |-> EnvString(envIn.task[i].Name, envIn.task[i].Value)]

\* C25: the environment of the child is variables of the executor's
\* environment, followed by the task's variables, followed by the variables
\* the hooks supplied, so that a hook's variable comes after a task variable
\* of the same name.
C25_TaskThenHook ==
    cmdEnv.set =>
        LET n == Len(cmdEnv.env)
            k == n - Len(envIn.task) - Len(envIn.hook)
        IN  /\ k >= 0
            /\ SubSeq(cmdEnv.env, k + 1, n) = TaskStrings \o envIn.hook
            /\ \A i \in 1..k : cmdEnv.env[i] \in Range(envIn.environ)

ExpiredEvents ==
    Cardinality({i \in DOMAIN events : events[i].type = "FailedDueToExpiredCertificate"})

\* C26: with d = (NotAfter - now) - jitter, checkCert returns an error and
\* arms no timer when d <= 0, and returns no error when d > 0, the timer
\* then being armed for d and injecting FailedDueToExpiredCertificate once.
C26_ArmedIffPositive ==
    certOut.done =>
        LET d == (certIn.notAfter - certIn.now) - certIn.jitter
        IN  /\ d <= 0 => (certOut.err /\ ~certArmed /\ ExpiredEvents = 0)
            /\ d > 0 =>
                /\ ~certOut.err
                /\ IF certArmed THEN ExpiredEvents = 0 ELSE ExpiredEvents = 1

\* C27: the worker is never stuck at the re-enqueue of an update whose send
\* failed: it is not at `u.buffer <- status` with the buffer full, where
\* nothing but the worker itself would ever make room.
C27_RequeueNeverBlocks ==
    ~(workerPc = "requeue" /\ Len(buffer) = BufferSize)

\* C28: an update whose UUID has been acknowledged is not in the
\* unacknowledged map, at the acknowledgement and at any time after it.
C28_AckedNeverReappears ==
    \A id \in acked : id \notin unAckStatuses

\* C29: once taskEventLoop has returned and cancelled the context, Start
\* eventually leaves SUBSCRIBE_LOOP through the cancelled context (and
\* returns nil after stateUpdater.Wait), whatever the agent does.
C29_LinkLeavesAfterCancel == ctxDone ~> (linkPc = "returned")

\* C30: once taskEventLoop has returned, the link is never stuck in its send
\* on e.events with every slot taken, while the agent sends at most EventsCap
\* duplicates of a KILL or SHUTDOWN event.
C30_BurstNeverBlocks ==
    ~(loopPc = "returned" /\ linkPc = "sending" /\ Len(events) = EventsCap)

\* The children launchTask has started so far (cmd.Start returned nil).
ChildrenStarted == Cardinality({i \in DOMAIN trace : trace[i] = T("start", "ok")})

\* C31: an executor starts at most one child process over its lifetime,
\* however many LAUNCH events the agent sends.
C31_AtMostOneChild == ChildrenStarted <= 1

\* C32: the KILLED status emitted for a Shutdown event of a launched task
\* carries the TaskID of that task.
C32_ShutdownCarriesTaskID ==
    \A i \in DOMAIN updates :
        (updates[i].state = "TASK_KILLED" /\ updates[i].msg = ShutdownMessage)
            => updates[i].tid = LaunchID

\* What the orchestrator knows of the task.
TaskState == <<taskInfo, cmd, childState, updates, hookLog, signals, killing, loopPc, ctxDone>>

\* C33: an ERROR event of the agent ends the subscription attempt only: the
\* step puts no event on the channel and leaves the task as it is, and Start
\* goes from it back to the select of SUBSCRIBE_LOOP with the recovery timer
\* started anew, not to a return.
C33_ErrorEndsAttemptOnly ==
    [][/\ (linkPc # "aborted" /\ linkPc' = "aborted")
            => (events' = events /\ TaskState' = TaskState)
       /\ linkPc = "aborted" => linkPc' \in {"aborted", "select"}
       /\ (linkPc = "aborted" /\ linkPc' = "select")
            => (/\ events' = events
                /\ TaskState' = TaskState
                /\ recoveryTimer' = "armed")]_vars

C33_Witness ==
    /\ linkPc = "aborted"
    /\ childState = "running"
    /\ events # <<>>
    /\ recoveryTimer = "fired"

\* C34: Wait, once called, returns: no later than at the poll that is the
\* first one at or after the timeout, there with the deadline error when the
\* buffer or the unacknowledged map is not empty; and Start then returns nil.
C34_DrainAlwaysReturns ==
    /\ [](waitTicks <= WaitTimeoutTicks)
    /\ [](waitTicks = WaitTimeoutTicks => waitPc \in {"readUnack", "ok", "deadline"})
    /\ [](waitPc = "deadline" => waitTicks = WaitTimeoutTicks)
    /\ [][((waitPc = "tick" /\ waitTicks' = WaitTimeoutTicks /\ Len(buffer) > 0)
             => (waitPc' = "deadline"))
          /\ ((waitPc = "readUnack" /\ waitPc' # "readUnack"
               /\ waitTicks = WaitTimeoutTicks /\ unAckStatuses # {})
             => (waitPc' = "deadline"))]_vars
    /\ (waitPc # "notcalled") ~> (waitPc \in {"ok", "deadline"})
    /\ (waitPc \in {"ok", "deadline"}) ~> (linkPc = "returned")
    /\ [](linkPc # "fatal")

C34_Witness ==
    /\ waitPc = "deadline"
    /\ linkPc = "returned"
    /\ buffer # <<>>
    /\ unAckStatuses # {}

\* The processes of the tree below the pid given to KillTree, and their
\* process groups other than the executor's own.
RECURSIVE InTree(_, _)
InTree(in, q) == q = RootPid \/ (in.parent[q] # 0 /\ InTree(in, in.parent[q]))

TreeGroups(in) == {in.pgid[q] : q \in {r \in Procs : InTree(in, r)}} \ {in.curPgid}

\* The signals KillTree sent to group g, in the order sent.
SignalsTo(g) ==
    LET toG == SelectSeq(killOut.sent, LAMBDA m : m.pgid = g)
    IN  [i \in DOMAIN toG |-> toG[i].signal]

\* C35: in a KillTree call every group of the computed set gets SIGSTOP, the
\* target signal and SIGCONT in that order, SIGCONT being left out exactly
\* for SIGKILL, and every SIGSTOP is sent before any target signal.
C35_StopSignalCont ==
    (killOut.done /\ ~killOut.err) =>
        /\ \A j \in DOMAIN killOut.pgids :
              SignalsTo(killOut.pgids[j]) =
                  IF killIn.signal = "SIGKILL" THEN <<"SIGSTOP", "SIGKILL">>
                  ELSE <<"SIGSTOP", killIn.signal, "SIGCONT">>
        /\ \A i, j \in DOMAIN killOut.sent :
              (killOut.sent[i].signal = "SIGSTOP" /\ killOut.sent[j].signal = killIn.signal)
                  => i < j

C35_Witness ==
    /\ killOut.done
    /\ ~killOut.err
    /\ Len(killOut.pgids) >= 2
    /\ killIn.signal = "SIGKILL"

\* How often KillTree sent signal sig to group g.
TimesSent(sig, g) ==
    Cardinality({i \in DOMAIN killOut.sent :
                    killOut.sent[i] = [signal |-> sig, pgid |-> g]})

\* C36: KillTree sends nothing to the executor's own process group and
\* nothing outside the groups of the tree, and each other group of the tree
\* gets each signal of the round once.
C36_OwnGroupSpared ==
    killOut.done =>
        /\ \A i \in DOMAIN killOut.sent :
              /\ killOut.sent[i].pgid # killIn.curPgid
              /\ killOut.sent[i].pgid \in TreeGroups(killIn)
              /\ TimesSent(killOut.sent[i].signal, killOut.sent[i].pgid) = 1
        /\ ~killOut.err =>
              \A g \in TreeGroups(killIn) :
                  TimesSent("SIGSTOP", g) = 1 /\ TimesSent(killIn.signal, g) = 1

C36_Witness ==
    /\ killOut.done
    /\ ~killOut.err
    /\ killOut.sent # <<>>
    /\ \E q \in Procs : InTree(killIn, q) /\ killIn.pgid[q] = killIn.curPgid
    /\ \E q, r \in Procs :
          /\ q # r
          /\ InTree(killIn, q)
          /\ InTree(killIn, r)
          /\ killIn.pgid[q] = killIn.pgid[r]
          /\ killIn.pgid[q] # killIn.curPgid

\* Stop has been called on the command by some caller.
StopInvoked == \E c \in Callers : stopPc[c] # "idle"

\* C37: when the goroutine of Wait turns the exit into an exit state, the
\* state is Killed only if Stop was called before, and it is then that
\* taskExitToEvent puts no CommandExited event on the channel.
C37_KilledOnlyAfterStop ==
    [][(~observed /\ observed') =>
          /\ WaitCode = "KilledCode" => (StopInvoked /\ killing)
          /\ WaitCode = "KilledCode" => events' = events
          /\ WaitCode # "KilledCode" =>
                (/\ Len(events') = Len(events) + 1
                 /\ events'[Len(events')].type = "CommandExited")]_vars

C37_Witness ==
    /\ observed
    /\ exitKind = "error"
    /\ StopInvoked
    /\ events = <<>>
    /\ \E c \in Callers : stopPc[c] = "grace"

\* The positions of the trace that hold entry e, and those before position i.
TraceAt(e) == {i \in DOMAIN trace : trace[i] = e}

Before(i) == 1..(i - 1)

\* C38: in the launch sequence STARTING is emitted before the certificate
\* check and before any BeforeTaskStart hook, every hook has run without
\* error before the child is started, RUNNING is emitted only after the
\* child has started, and the health checks are started only after RUNNING.
C38_LaunchOrder ==
    /\ \A i \in DOMAIN trace :
          (trace[i].k = "cert" \/ trace[i] = T("hook", "BeforeTaskStart"))
              => TraceAt(T("update", "TASK_STARTING")) \cap Before(i) # {}
    /\ \A i \in DOMAIN trace :
          trace[i].k = "start" =>
              /\ Cardinality(TraceAt(T("hook", "BeforeTaskStart")) \cap Before(i)) = NumHooks
              /\ TraceAt(T("hook", "BeforeTaskStart")) \subseteq Before(i)
              /\ TraceAt(T("hookerr", "BeforeTaskStart")) = {}
    /\ \A i \in TraceAt(T("update", "TASK_RUNNING")) :
          TraceAt(T("start", "ok")) \cap Before(i) # {}
    /\ \A i \in TraceAt(T("health", "start")) :
          TraceAt(T("update", "TASK_RUNNING")) \cap Before(i) # {}

C38_Witness ==
    /\ TraceAt(T("cert", "armed")) # {}
    /\ TraceAt(T("start", "ok")) # {}
    /\ TraceAt(T("health", "start")) # {}
    /\ childState = "running"

\* C39: the grace window is measured from the time handleHealthResults was
\* started minus the delay.  Until the first result arrives `now` is still
\* that time, so for a first result that fails: it is dropped (no event is
\* sent) exactly when now' - (now - delay) is below the grace period.
C39_GraceFromStartMinusDelay ==
    [][(hcStarted /\ hcResults = <<>> /\ hcResults' # <<>> /\ hcResults'[1].failed) =>
          ((events' = events)
              <=> (now' - (now - checkDefinition.delay) < checkDefinition.grace))]_vars

\* C40: the supervisor goes on after FailedDueToUnhealthy: in a run of more
\* than max_consecutive_failures counted failures every failure from the
\* K-th on has sent FailedDueToUnhealthy, and a passing check sets the
\* counter back to 0.
C40_FailedAgainUntilPass ==
    /\ [](LET r == FailRun
              m == Len(events)
          IN  r > MaxConsecutiveFailures =>
                /\ m >= r
                /\ \A i \in MaxConsecutiveFailures..r :
                      events[m - r + i].type = "FailedDueToUnhealthy")
    /\ [](consecutiveFailures = FailRun)
    /\ [][(Len(hcResults') = Len(hcResults) + 1 /\ ~hcResults'[Len(hcResults')].failed)
             => consecutiveFailures' = 0]_vars

\* A failure beyond the threshold, with its own FailedDueToUnhealthy.
C40_Witness ==
    /\ FailRun = MaxConsecutiveFailures + 1
    /\ Len(events) >= 2
    /\ \A i \in 0..1 : events[Len(events) - i].type = "FailedDueToUnhealthy"

====
